---- MODULE Spec2Model ----
(***************************************************************************)
(* Model of the patch pipeline of run_code_agent.py: the policy check      *)
(* (diff_touches_forbidden), the canonicalizer (canonicalize_llm_patch),   *)
(* the apply engine (apply_unified_diff) and the controller                *)
(* (attempt_llm_patch).                                                    *)
(*                                                                         *)
(* Python str values are TLA+ strings; TLC evaluates Len, SubSeq and \o on *)
(* them.  Positions returned by Find are Python's (0-based, -1 = absent).  *)
(* The alphabet is ASCII and one character for each class of the other    *)
(* characters that the code tells apart (see "The alphabet" below).        *)
(***************************************************************************)
EXTENDS Integers, Sequences, FiniteSets, Bags, TLC

VARIABLES
    policy,       \* the four module-level policy tuples (lines 17-20)
    issue_title,  \* attempt_llm_patch argument
    issue_body,   \* attempt_llm_patch argument
    ai_review,    \* attempt_llm_patch argument
    pc,           \* position in attempt_llm_patch / apply_unified_diff
    diff_text,    \* local of attempt_llm_patch
    llm_mode,     \* local of attempt_llm_patch
    raw_used,     \* local of attempt_llm_patch
    e,            \* the exception caught at line 637 (its str), or None
    diff3,        \* local of attempt_llm_patch (repair patch)
    llm_mode3,    \* local of attempt_llm_patch
    raw3,         \* local of attempt_llm_patch
    phase,        \* which call of apply_unified_diff is running: "main" | "repair"
    canon_text,   \* local diff_text of apply_unified_diff after line 518
    p,            \* the CompletedProcess of the strict git apply (line 520)
    result,       \* the tuple attempt_llm_patch returned, or None
    calls,        \* every call that left the controller, in order
    tree,         \* effects of git apply on the working tree, in order
    repo,         \* the repository: its files, its index, its blobs
    arg,          \* input of the pure function under check
    ret,          \* its output
    op            \* which pure function was applied, or "none"

vars == <<policy, issue_title, issue_body, ai_review, pc, diff_text, llm_mode,
          raw_used, e, diff3, llm_mode3, raw3, phase, canon_text, p, result,
          calls, tree, repo, arg, ret, op>>

\* Optional[str]: None is the empty tuple, a str s is <<s>>.  A Python tuple is
\* a TLA+ tuple, so "no tuple returned yet" is None as well.
None == <<>>
Some(s) == <<s>>

\* A local name: F applied to the value of v, v evaluated once.
With(v, F(_)) == CHOOSE y \in {F(x) : x \in {v}} : TRUE

-----------------------------------------------------------------------------
(* Python str operations                                                   *)

\* s[m-1:n] for 1-based m, n: positions outside the string hold nothing
Sub(s, m, n) ==
    LET a == IF m < 1 THEN 1 ELSE m
        b == IF n > Len(s) THEN Len(s) ELSE n
    IN  IF a > b THEN "" ELSE SubSeq(s, a, b)

\* s[i-1:i]: the character at 1-based i, "" outside the string
Ch(s, i) == Sub(s, i, i)

\* s[i:] with a 0-based i in 0..len(s)
From(s, i) == Sub(s, i + 1, Len(s))

\* s[:n] with n >= 0
Take(s, n) == Sub(s, 1, n)

StartsWith(s, pre) == Len(s) >= Len(pre) /\ Sub(s, 1, Len(pre)) = pre

EndsWith(s, suf) ==
    Len(s) >= Len(suf) /\ Sub(s, Len(s) - Len(suf) + 1, Len(s)) = suf

\* str.find
Find(s, sub) ==
    LET n == Len(s) - Len(sub)
        At(i) == Sub(s, i + 1, i + Len(sub)) = sub
    IN  IF \E i \in 0..n : At(i)
        THEN CHOOSE i \in 0..n : At(i) /\ \A j \in 0..(i - 1) : ~At(j)
        ELSE -1

\* str.rfind
RFind(s, sub) ==
    LET n == Len(s) - Len(sub)
        At(i) == Sub(s, i + 1, i + Len(sub)) = sub
    IN  IF \E i \in 0..n : At(i)
        THEN CHOOSE i \in 0..n : At(i) /\ \A j \in (i + 1)..n : ~At(j)
        ELSE -1

\* sub in s
Contains(s, sub) == \E i \in 0..(Len(s) - Len(sub)) : Sub(s, i + 1, i + Len(sub)) = sub

\* The position of the first character of s that is in cs, 0 without one
FirstOf(s, cs) ==
    IF \E k \in 1..Len(s) : Ch(s, k) \in cs
    THEN CHOOSE k \in 1..Len(s) : Ch(s, k) \in cs /\ \A j \in 1..(k - 1) : Ch(s, j) \notin cs
    ELSE 0

\* s without the characters of cs at its start resp. at its end
DropLeading(s, cs) ==
    With(FirstOf(s, {Ch(s, i) : i \in 1..Len(s)} \ cs), LAMBDA k :
    IF k = 0 THEN "" ELSE From(s, k - 1))
DropTrailing(s, cs) ==
    IF \A i \in 1..Len(s) : Ch(s, i) \in cs
    THEN ""
    ELSE Take(s, CHOOSE k \in 1..Len(s) :
                     Ch(s, k) \notin cs /\ \A j \in (k + 1)..Len(s) : Ch(s, j) \in cs)

-----------------------------------------------------------------------------
(* The alphabet: U+0020..U+007E, \t, \n, \f, \r, and one character for     *)
(* each class of the other characters that Python tells apart.  A class is *)
(* written with a visible character that the texts never hold themselves.  *)

\* U+0060 GRAVE ACCENT (the Markdown fence character)
BT == "´"
\* U+000B: white space, a line boundary, a control character (below U+0020)
VT == "¦"
\* U+001C, U+001D, U+001E: white space, a line boundary, a control
\* character; int() and float() do not take them for blanks
FS == "§"
\* U+001F: white space and a control character, no line boundary; no blank
\* for int() and float()
US == "¬"
\* U+0085, U+2028, U+2029: white space and a line boundary, no control
\* character
NEL == "¶"
\* U+00A0, U+1680, U+2000..U+200A, U+202F, U+205F, U+3000: white space only
NBSP == "·"
\* U+0000..U+0008, U+000E..U+001B: a control character, no white space
CTRL == "¿"
\* The decimal digits outside ASCII (category Nd: \d of a str pattern,
\* int(), float()), one character for each value 0..9, at the place of its
\* value: U+0660 and U+FF10 are Ch(DIGITS, 1), U+0663 is Ch(DIGITS, 4).
DIGITS == "À¹²³ÄÅÆÇÈÉ"
\* U+0663 ARABIC-INDIC DIGIT THREE
DIGIT3 == "³"
\* U+212A KELVIN SIGN: str.lower() makes "k" of it
KELVIN == "£"
\* U+0130 LATIN CAPITAL LETTER I WITH DOT ABOVE: str.lower() makes two
\* characters of it, "i" and U+0307
IDOT == "Ì"
\* U+D800..U+DBFF, a high surrogate on its own (json.loads makes one of an
\* escape \ud800 that no low surrogate escape follows): UTF-8 has no
\* encoding for it.  Written as U+D800 where a message names it.
HS == "«"
\* U+DC00..U+DFFF, a low surrogate on its own; written as U+DC00
LS == "»"
\* U+00A4, and any character like it: at U+007F or above, no white space, no
\* line boundary, no decimal digit, no surrogate, and str.lower() makes of
\* it one character of this kind.
OUTSIDE == "¤"

\* str.isspace() of one character; \s of a str pattern
IsSpace(c) == c \in {" ", "\t", "\n", "\r", "\f", VT, FS, US, NEL, NBSP}

\* The line boundaries of str.splitlines()
IsLineBoundary(c) == c \in {"\n", "\r", "\f", VT, FS, NEL}

\* A character below U+0020
IsControl(c) == c \in {"\t", "\n", "\r", "\f", VT, FS, US, CTRL}

\* A decimal digit (\d of a str pattern; a digit for int() and float())
IsDecimal(c) == c # "" /\ (Contains("0123456789", c) \/ Contains(DIGITS, c))

\* The value of a decimal digit
DigitValue(c) == IF Contains(DIGITS, c) THEN Find(DIGITS, c) ELSE Find("0123456789", c)

\* A character that str.encode("utf-8") refuses
IsSurrogate(c) == c \in {HS, LS}

\* str.lstrip()
LStrip(s) ==
    IF \A i \in 1..Len(s) : IsSpace(Ch(s, i))
    THEN ""
    ELSE LET k == CHOOSE i \in 1..Len(s) :
                      ~IsSpace(Ch(s, i)) /\ \A j \in 1..(i - 1) : IsSpace(Ch(s, j))
         IN  Sub(s, k, Len(s))

\* str.rstrip()
RStrip(s) ==
    IF \A i \in 1..Len(s) : IsSpace(Ch(s, i))
    THEN ""
    ELSE LET k == CHOOSE i \in 1..Len(s) :
                      ~IsSpace(Ch(s, i)) /\ \A j \in (i + 1)..Len(s) : IsSpace(Ch(s, j))
         IN  Sub(s, 1, k)

\* str.strip()
Strip(s) == LStrip(RStrip(s))

\* str.lower() (by halves): the letters A..Z, KELVIN and IDOT change, and
\* no other character of the alphabet
RECURSIVE Lower(_)
Lower(s) ==
    IF Len(s) = 0 THEN ""
    ELSE IF Len(s) = 1
    THEN (IF Find("ABCDEFGHIJKLMNOPQRSTUVWXYZ", s) # -1
          THEN Ch("abcdefghijklmnopqrstuvwxyz", Find("ABCDEFGHIJKLMNOPQRSTUVWXYZ", s) + 1)
          ELSE IF s = KELVIN THEN "k"
          ELSE IF s = IDOT THEN "i" \o OUTSIDE
          ELSE s)
    ELSE Lower(Take(s, Len(s) \div 2)) \o Lower(From(s, Len(s) \div 2))

\* str.replace(old, new), old non-empty: leftmost occurrences, not overlapping
RECURSIVE Replace(_, _, _)
Replace(s, old, new) ==
    LET i == Find(s, old)
    IN  IF i = -1
        THEN s
        ELSE Sub(s, 1, i) \o new \o Replace(From(s, i + Len(old)), old, new)

\* str.splitlines(): no empty last line after a final line boundary
RECURSIVE SplitLines(_)
SplitLines(s) ==
    IF s = ""
    THEN <<>>
    ELSE LET IsBreak(i) == IsLineBoundary(Ch(s, i))
         IN  IF \E i \in 1..Len(s) : IsBreak(i)
             THEN LET k == CHOOSE i \in 1..Len(s) :
                               IsBreak(i) /\ \A j \in 1..(i - 1) : ~IsBreak(j)
                      w == IF Ch(s, k) = "\r" /\ k < Len(s) /\ Ch(s, k + 1) = "\n"
                           THEN 2 ELSE 1
                  IN  <<Sub(s, 1, k - 1)>> \o SplitLines(From(s, k + w - 1))
             ELSE <<s>>

\* sep.join(parts)
RECURSIVE Join(_, _)
Join(parts, sep) ==
    IF Len(parts) = 0 THEN ""
    ELSE IF Len(parts) = 1 THEN parts[1]
    ELSE parts[1] \o sep \o Join(Tail(parts), sep)

\* s * n
RECURSIVE Rep(_, _)
Rep(s, n) ==
    IF n <= 0
    THEN ""
    ELSE LET h == Rep(s, n \div 2)
         IN  h \o h \o (IF n % 2 = 1 THEN s ELSE "")

-----------------------------------------------------------------------------
(* Path policy (lines 16-20, 281-308)                                      *)

ALLOWED_PATH_PREFIXES == <<"agents/", "tests/", "src/", ".ai/">>
ALLOWED_EXACT == <<"README.md">>
DENY_PATH_PREFIXES == <<".github/workflows/">>
DENY_EXACT == <<"pyproject.toml", "docker-compose.yml", "Dockerfile">>

\* The module-level tuples as the code ships them.
DefaultPolicy ==
    [ALLOWED_PATH_PREFIXES |-> ALLOWED_PATH_PREFIXES,
     ALLOWED_EXACT         |-> ALLOWED_EXACT,
     DENY_PATH_PREFIXES    |-> DENY_PATH_PREFIXES,
     DENY_EXACT            |-> DENY_EXACT]

\* x in tup
InTuple(x, tup) == \E i \in 1..Len(tup) : tup[i] = x

\* any(path.startswith(p) for p in tup)
AnyPrefix(path, tup) == \E i \in 1..Len(tup) : StartsWith(path, tup[i])

\* The functions read the module globals when they run: policy holds them.
_path_is_allowed(path) ==
    IF InTuple(path, policy.ALLOWED_EXACT)
    THEN TRUE
    ELSE AnyPrefix(path, policy.ALLOWED_PATH_PREFIXES)

\* Lines 289-301: the path a line is checked for, or None when the loop
\* goes on to the next line without a check.
marker_path(line) ==
    IF \/ StartsWith(line, "+++ b/")
       \/ StartsWith(line, "--- a/")
       \/ StartsWith(line, "--- /dev/null")
    THEN IF StartsWith(line, "--- /dev/null")
         THEN None
         ELSE LET path == From(line, 6)
              IN  IF path = "" \/ path = "/dev/null" THEN None ELSE Some(path)
    ELSE None

\* A buggy variant: the allow list is consulted before the deny list.
path_reason_allow_first(path) ==
    IF _path_is_allowed(path)
    THEN None
    ELSE IF InTuple(path, policy.DENY_EXACT)
    THEN Some("attempted to modify forbidden file: " \o path)
    ELSE IF AnyPrefix(path, policy.DENY_PATH_PREFIXES)
    THEN Some("attempted to modify forbidden path: " \o path)
    ELSE Some("attempted to modify non-allowed path: " \o path)

\* Lines 302-307: the reason one path is rejected for, or None.
path_reason(path) ==
    IF InTuple(path, policy.DENY_EXACT)
    THEN Some("attempted to modify forbidden file: " \o path)
    ELSE IF AnyPrefix(path, policy.DENY_PATH_PREFIXES)
    THEN Some("attempted to modify forbidden path: " \o path)
    ELSE IF ~_path_is_allowed(path)
    THEN Some("attempted to modify non-allowed path: " \o path)
    ELSE None

\* The loop of lines 288-308 over lines[i..]: the first rejection returns.
RECURSIVE forbidden_from(_, _)
forbidden_from(lines, i) ==
    IF i > Len(lines)
    THEN None
    ELSE With(marker_path(lines[i]), LAMBDA mp :
         With(IF mp = None THEN None ELSE path_reason(mp[1]), LAMBDA r :
         IF r # None THEN r ELSE forbidden_from(lines, i + 1)))

diff_touches_forbidden(text) ==
    With(SplitLines(text), LAMBDA lines : forbidden_from(lines, 1))

-----------------------------------------------------------------------------
(* json.loads (CPython json.decoder / json.scanner, strict mode)           *)
(* A value is [t, s, items]: t its JSON type, s the text of a string or    *)
(* number, items the pairs <<key, value>> of an object or the elements of  *)
(* an array.  A parse is [ok, v, i]: i the 0-based index after the value.  *)

JVal(t, str, items) == [t |-> t, s |-> str, items |-> items]
JNull == JVal("null", "", <<>>)
JFail == [ok |-> FALSE, v |-> JNull, i |-> 0]
JOk(v, i) == [ok |-> TRUE, v |-> v, i |-> i]

\* sys.get_int_max_str_digits(): int() of a text of more digits raises
\* ValueError
INT_MAX_STR_DIGITS == 4300

\* json.decoder.WHITESPACE
JsonWs(c) == c \in {" ", "\t", "\n", "\r"}

\* WHITESPACE.match(s, i).end()
SkipWs(s, i) ==
    IF \A k \in (i + 1)..Len(s) : JsonWs(Ch(s, k))
    THEN IF i > Len(s) THEN i ELSE Len(s)
    ELSE (CHOOSE k \in (i + 1)..Len(s) :
              ~JsonWs(Ch(s, k)) /\ \A j \in (i + 1)..(k - 1) : JsonWs(Ch(s, j))) - 1

IsDigit(c) == c # "" /\ Contains("0123456789", c)

\* the index after the digits that start at 0-based i
DigitsEnd(s, i) ==
    IF \A k \in (i + 1)..Len(s) : IsDigit(Ch(s, k))
    THEN IF i > Len(s) THEN i ELSE Len(s)
    ELSE (CHOOSE k \in (i + 1)..Len(s) :
              ~IsDigit(Ch(s, k)) /\ \A j \in (i + 1)..(k - 1) : IsDigit(Ch(s, j))) - 1

\* NUMBER_RE.match(s, i).end(), or -1:
\* (-?(?:0|[1-9]\d*))(\.\d+)?([eE][-+]?\d+)?
NumberEnd(s, i) ==
    LET a  == IF Ch(s, i + 1) = "-" THEN i + 1 ELSE i
        c  == Ch(s, a + 1)
        b  == IF c = "0" THEN a + 1
              ELSE IF IsDigit(c) THEN DigitsEnd(s, a)
              ELSE -1
        f  == IF b # -1 /\ Ch(s, b + 1) = "." /\ IsDigit(Ch(s, b + 2))
              THEN DigitsEnd(s, b + 1) ELSE b
        x  == IF Ch(s, f + 2) = "-" \/ Ch(s, f + 2) = "+" THEN f + 2 ELSE f + 1
        g  == IF b # -1 /\ (Ch(s, f + 1) = "e" \/ Ch(s, f + 1) = "E")
                 /\ IsDigit(Ch(s, x + 1))
              THEN DigitsEnd(s, x) ELSE f
    IN  IF b = -1 THEN -1 ELSE g

HexDigits == "0123456789abcdef"
HexDigitsUpper == "0123456789ABCDEF"
IsHex(c) == c # "" /\ (Contains(HexDigits, c) \/ Contains(HexDigitsUpper, c))
HexVal(c) == IF Contains(HexDigits, c) THEN Find(HexDigits, c) ELSE Find(HexDigitsUpper, c)
Hex4(s, i) ==
    HexVal(Ch(s, i + 1)) * 4096 + HexVal(Ch(s, i + 2)) * 256
    + HexVal(Ch(s, i + 3)) * 16 + HexVal(Ch(s, i + 4))

\* U+0020 .. U+007E in order, BT at U+0060
Printable ==
    " !\"#$%&'()*+,-./0123456789:;<=>?@ABCDEFGHIJKLMNOPQRSTUVWXYZ[\\]^_"
    \o BT \o "abcdefghijklmnopqrstuvwxyz{|}~"

\* The code points of the decimal digits of value 0 outside ASCII (Unicode
\* 14.0, the table of Python 3.11): the nine code points that follow each
\* hold the digits of value 1..9.
DigitZeros ==
    {1632, 1776, 1984, 2406, 2534, 2662, 2790, 2918, 3046, 3174,
     3302, 3430, 3558, 3664, 3792, 3872, 4160, 4240, 6112, 6160,
     6470, 6608, 6784, 6800, 6992, 7088, 7232, 7248, 42528, 43216,
     43264, 43472, 43504, 43600, 44016, 65296, 66720, 68912, 69734, 69872,
     69942, 70096, 70384, 70736, 70864, 71248, 71360, 71472, 71904, 72016,
     72784, 73040, 73120, 92768, 92864, 93008, 120782, 120792, 120802, 120812,
     120822, 123200, 123632, 125264, 130032}

\* chr(n), 0 <= n <= 1114111
Chr(n) ==
    IF n = 9 THEN "\t"
    ELSE IF n = 10 THEN "\n"
    ELSE IF n = 12 THEN "\f"
    ELSE IF n = 13 THEN "\r"
    ELSE IF n >= 32 /\ n <= 126 /\ n # 96 THEN Ch(Printable, n - 31)
    ELSE IF n = 96 THEN BT
    ELSE IF n = 11 THEN VT
    ELSE IF n \in {28, 29, 30} THEN FS
    ELSE IF n = 31 THEN US
    ELSE IF n < 32 THEN CTRL
    ELSE IF n \in {133, 8232, 8233} THEN NEL
    ELSE IF n \in {160, 5760, 8239, 8287, 12288} \/ (n >= 8192 /\ n <= 8202)
    THEN NBSP
    ELSE IF \E z \in DigitZeros : n >= z /\ n <= z + 9
    THEN Ch(DIGITS, n - (CHOOSE z \in DigitZeros : n >= z /\ n <= z + 9) + 1)
    ELSE IF n = 8490 THEN KELVIN
    ELSE IF n = 304 THEN IDOT
    ELSE IF n >= 55296 /\ n <= 56319 THEN HS
    ELSE IF n >= 56320 /\ n <= 57343 THEN LS
    ELSE OUTSIDE

\* py_scanstring(s, i, strict=True): i is the index after the opening quote.
RECURSIVE ScanString(_, _)
ScanString(s, i) ==
    LET Special(k) == Ch(s, k) \in {"\"", "\\"} \/ IsControl(Ch(s, k))
    IN  IF ~\E k \in (i + 1)..Len(s) : Special(k)
        THEN JFail
        ELSE LET k     == CHOOSE k \in (i + 1)..Len(s) :
                              Special(k) /\ \A j \in (i + 1)..(k - 1) : ~Special(j)
                 chunk == Sub(s, i + 1, k - 1)
                 c     == Ch(s, k)
                 esc   == Ch(s, k + 1)
                 n     == Hex4(s, k + 1)
                 pair  == /\ n >= 55296 /\ n <= 56319
                          /\ Sub(s, k + 6, k + 7) = "\\u"
                          /\ \A j \in 8..11 : IsHex(Ch(s, k + j))
                          /\ Hex4(s, k + 7) >= 56320 /\ Hex4(s, k + 7) <= 57343
                 Then(ch, next) ==
                     With(ScanString(s, next), LAMBDA r :
                     IF r.ok
                     THEN JOk(JVal("str", chunk \o ch \o r.v.s, <<>>), r.i)
                     ELSE JFail)
             IN  IF c = "\""
                 THEN JOk(JVal("str", chunk, <<>>), k)
                 ELSE IF c # "\\"
                 THEN JFail
                 ELSE IF esc = "u"
                 THEN IF \A j \in 2..5 : IsHex(Ch(s, k + j))
                      THEN IF pair
                           THEN Then(Chr(65536 + (n - 55296) * 1024
                                         + (Hex4(s, k + 7) - 56320)), k + 11)
                           ELSE Then(Chr(n), k + 5)
                      ELSE JFail
                 ELSE IF esc = "\"" THEN Then("\"", k + 1)
                 ELSE IF esc = "\\" THEN Then("\\", k + 1)
                 ELSE IF esc = "/" THEN Then("/", k + 1)
                 ELSE IF esc = "b" THEN Then(CTRL, k + 1)
                 ELSE IF esc = "f" THEN Then("\f", k + 1)
                 ELSE IF esc = "n" THEN Then("\n", k + 1)
                 ELSE IF esc = "r" THEN Then("\r", k + 1)
                 ELSE IF esc = "t" THEN Then("\t", k + 1)
                 ELSE JFail

RECURSIVE ScanOnce(_, _)
RECURSIVE ObjectPairs(_, _, _)
RECURSIVE ArrayItems(_, _, _)

\* JSONObject's loop: i is the index of the opening quote of the next key.
ObjectPairs(s, i, pairs) ==
    IF Ch(s, i + 1) # "\"" THEN JFail ELSE
    With(ScanString(s, i + 1), LAMBDA key :
    IF ~key.ok THEN JFail ELSE
    With(SkipWs(s, key.i), LAMBDA colon :
    IF Ch(s, colon + 1) # ":" THEN JFail ELSE
    With(ScanOnce(s, SkipWs(s, colon + 1)), LAMBDA val :
    IF ~val.ok THEN JFail ELSE
    With(SkipWs(s, val.i), LAMBDA after :
    With(Append(pairs, <<key.v.s, val.v>>), LAMBDA more :
    IF Ch(s, after + 1) = "}" THEN JOk(JVal("obj", "", more), after + 1)
    ELSE IF Ch(s, after + 1) = "," THEN ObjectPairs(s, SkipWs(s, after + 1), more)
    ELSE JFail)))))

\* JSONArray's loop: i is the index of the next element.
ArrayItems(s, i, items) ==
    With(ScanOnce(s, i), LAMBDA val :
    IF ~val.ok THEN JFail ELSE
    With(SkipWs(s, val.i), LAMBDA after :
    With(Append(items, val.v), LAMBDA more :
    IF Ch(s, after + 1) = "]" THEN JOk(JVal("arr", "", more), after + 1)
    ELSE IF Ch(s, after + 1) = "," THEN ArrayItems(s, SkipWs(s, after + 1), more)
    ELSE JFail)))

\* scan_once(s, i)
ScanOnce(s, i) ==
    With(NumberEnd(s, i), LAMBDA m :
    LET c == Ch(s, i + 1)
        w == SkipWs(s, i + 1)
    IN  IF c = "" THEN JFail
        ELSE IF c = "\"" THEN ScanString(s, i + 1)
        ELSE IF c = "{"
        THEN IF Ch(s, w + 1) = "}" THEN JOk(JVal("obj", "", <<>>), w + 1)
             ELSE ObjectPairs(s, w, <<>>)
        ELSE IF c = "["
        THEN IF Ch(s, w + 1) = "]" THEN JOk(JVal("arr", "", <<>>), w + 1)
             ELSE ArrayItems(s, w, <<>>)
        ELSE IF Sub(s, i + 1, i + 4) = "null" THEN JOk(JNull, i + 4)
        ELSE IF Sub(s, i + 1, i + 4) = "true" THEN JOk(JVal("true", "", <<>>), i + 4)
        ELSE IF Sub(s, i + 1, i + 5) = "false" THEN JOk(JVal("false", "", <<>>), i + 5)
        ELSE IF m # -1
        THEN IF /\ FirstOf(Sub(s, i + 1, m), {".", "e", "E"}) = 0
                /\ m - i - (IF c = "-" THEN 1 ELSE 0) > INT_MAX_STR_DIGITS
             THEN JFail
             ELSE JOk(JVal("num", Sub(s, i + 1, m), <<>>), m)
        ELSE IF Sub(s, i + 1, i + 3) = "NaN" THEN JOk(JVal("num", "NaN", <<>>), i + 3)
        ELSE IF Sub(s, i + 1, i + 8) = "Infinity"
        THEN JOk(JVal("num", "Infinity", <<>>), i + 8)
        ELSE IF Sub(s, i + 1, i + 9) = "-Infinity"
        THEN JOk(JVal("num", "-Infinity", <<>>), i + 9)
        ELSE JFail)

\* sys.getrecursionlimit(): the code does not change the limit of the
\* interpreter.
RecursionLimit == 1000

\* What a text does to the scanner that is outside a string (1), inside one
\* (2) or behind a backslash inside one (3) when the text begins: where the
\* scanner is at its end, the containers opened less those closed, and the
\* most that were open at a time.
NestingThen(a, b, st) ==
    <<b[a[st][1]][1],
      a[st][2] + b[a[st][1]][2],
      IF a[st][3] >= a[st][2] + b[a[st][1]][3]
      THEN a[st][3] ELSE a[st][2] + b[a[st][1]][3]>>

RECURSIVE NestingOf(_)
NestingOf(s) ==
    IF Len(s) = 0 THEN << <<1, 0, 0>>, <<2, 0, 0>>, <<3, 0, 0>> >>
    ELSE IF Len(s) = 1
    THEN << (IF s = "\"" THEN <<2, 0, 0>>
             ELSE IF s \in {"[", "{"} THEN <<1, 1, 1>>
             ELSE IF s \in {"]", "}"} THEN <<1, -1, 0>>
             ELSE <<1, 0, 0>>),
            (IF s = "\"" THEN <<1, 0, 0>>
             ELSE IF s = "\\" THEN <<3, 0, 0>>
             ELSE <<2, 0, 0>>),
            <<2, 0, 0>> >>
    ELSE With(NestingOf(Take(s, Len(s) \div 2)), LAMBDA a :
         With(NestingOf(From(s, Len(s) \div 2)), LAMBDA b :
         <<NestingThen(a, b, 1), NestingThen(a, b, 2), NestingThen(a, b, 3)>>))

\* How deep the arrays and objects of a JSON text are nested
NestingDepth(s) == NestingOf(s)[1][3]

\* json.loads(s) where the caller runs with `frames` Python frames in use,
\* its own included: [ok, v]; ok = FALSE is JSONDecodeError, the ValueError
\* of an integer of more than 4300 digits, or RecursionError: loads,
\* decode and raw_decode take three frames and the scanner one level for
\* each array or object it is in (CPython 3.11).
json_loads(s, frames) ==
    IF frames + 3 + Len(s) >= RecursionLimit
       /\ frames + 3 + NestingDepth(s) >= RecursionLimit
    THEN JFail
    ELSE With(ScanOnce(s, SkipWs(s, 0)), LAMBDA r :
         IF r.ok /\ SkipWs(s, r.i) = Len(s) THEN r ELSE JFail)

-----------------------------------------------------------------------------
(* The value of a decimal literal as int() and float() round it            *)

\* A decimal literal [sign] digits [. digits] [e [sign] digits], its digits
\* ASCII or of DIGITS, and "_" allowed between them, as the magnitude
\* 0.sig * 10^(top + 1): sig the digits from the first that is not zero to
\* the last that is not zero ("" for the value 0), top the power of ten of
\* the first.  An exponent of more than ExpDigits digits counts as 10^6: the
\* texts are shorter than that by far.
ExpDigits == 6
\* the text with each decimal digit as its ASCII digit and no "_"
RECURSIVE AsciiDigits(_)
AsciiDigits(t) ==
    IF Len(t) = 0 THEN ""
    ELSE IF Len(t) = 1
    THEN (IF t = "_" THEN "" ELSE IF IsDecimal(t) THEN Ch("0123456789", DigitValue(t) + 1) ELSE t)
    ELSE AsciiDigits(Take(t, Len(t) \div 2)) \o AsciiDigits(From(t, Len(t) \div 2))

RECURSIVE DigitsToInt(_)
DigitsToInt(d) ==
    IF d = "" THEN 0
    ELSE 10 * DigitsToInt(Take(d, Len(d) - 1)) + Find("0123456789", Ch(d, Len(d)))

\* The value of the exponent part xt ("" without one)
ExponentValue(xt) ==
    With(DropLeading(IF Ch(xt, 1) \in {"+", "-"} THEN From(xt, 1) ELSE xt, {"0"}), LAMBDA xd :
    With(IF Len(xd) > ExpDigits THEN 1000000 ELSE DigitsToInt(xd), LAMBDA xv :
    IF Ch(xt, 1) = "-" THEN 0 - xv ELSE xv))

Magnitude(text) ==
    With(AsciiDigits(text), LAMBDA t :
    With(IF Ch(t, 1) \in {"+", "-"} THEN From(t, 1) ELSE t, LAMBDA u :
    With(FirstOf(u, {"e", "E"}), LAMBDA epos :
    With(IF epos = 0 THEN u ELSE Take(u, epos - 1), LAMBDA mant :
    With(ExponentValue(IF epos = 0 THEN "" ELSE From(u, epos)), LAMBDA expo :
    With(FirstOf(mant, {"."}), LAMBDA dot :
    With(IF dot = 0 THEN Len(mant) ELSE dot - 1, LAMBDA iplen :
    With(IF dot = 0 THEN mant ELSE Take(mant, dot - 1) \o From(mant, dot), LAMBDA ds :
    With(FirstOf(ds, {"1", "2", "3", "4", "5", "6", "7", "8", "9"}), LAMBDA z :
    IF z = 0
    THEN [sig |-> "", top |-> 0]
    ELSE [sig |-> DropTrailing(From(ds, z - 1), {"0"}), top |-> iplen - z + expo])))))))))

\* The digit at position i of the digits x, 0 after their end
DigitAt(x, i) == IF i > Len(x) THEN 0 ELSE Find("0123456789", Ch(x, i))

\* The first position where the digits a and b differ, 0 when none does
FirstDiffer(a, b) ==
    With(IF Len(a) > Len(b) THEN Len(a) ELSE Len(b), LAMBDA len :
    IF \A i \in 1..len : DigitAt(a, i) = DigitAt(b, i)
    THEN 0
    ELSE CHOOSE i \in 1..len :
             /\ DigitAt(a, i) # DigitAt(b, i)
             /\ \A j \in 1..(i - 1) : DigitAt(a, j) = DigitAt(b, j))

\* -1, 0, 1 as the magnitude m is below, equal to, above the magnitude n
CompareMagnitude(m, n) ==
    IF m.sig = "" THEN (IF n.sig = "" THEN 0 ELSE -1)
    ELSE IF n.sig = "" THEN 1
    ELSE IF m.top # n.top THEN (IF m.top < n.top THEN -1 ELSE 1)
    ELSE With(FirstDiffer(m.sig, n.sig), LAMBDA i :
         IF i = 0 THEN 0
         ELSE IF DigitAt(m.sig, i) < DigitAt(n.sig, i) THEN -1 ELSE 1)

\* 2^-1075, half the smallest positive float: a magnitude up to it rounds
\* to 0.0 (ties go to the even mantissa)
HalfMinFloat ==
    [top |-> -324,
     sig |-> "2470328229206232720882843964341106861825299013071623822127928412"
             \o "5033775363510437593264991818081799618989828234772285886546332835"
             \o "5177969898199387398005390939063150356595155702263922908583924491"
             \o "0518443593180284993653615250031937045767824921936562366986365848"
             \o "0757001585769269903706311928279558551332927834338409351978015531"
             \o "2465972635795746227664652728272200563740064854999770965994704540"
             \o "2082816622623785739345073633900796776193057750674017632467360096"
             \o "8951340535537458516661134223766678604162159680461914467291840300"
             \o "5300575308490487653917113865916462395249126236538818796362393732"
             \o "8042389101867234849766823508986338858792562830275599565752445550"
             \o "7255189313690836254779186948667994968324049705821028513185451396"
             \o "213837722826145437693412532098591327667236328125"]

\* 2^1024 - 2^970, half way from the largest float to 2^1024: a magnitude
\* from it on rounds to inf, and float(int) raises OverflowError
HalfPastMaxFloat ==
    [top |-> 308,
     sig |-> "1797693134862315807937289714053034150799341327100378269361737789"
             \o "8044496829276475094664901797758720709633028641669288791094655554"
             \o "7851940402630657488671505820681908902000708383676273854845817711"
             \o "5317644757302700698555713669596228429148198608349364752927190741"
             \o "68444365510704342711559699508093042880177904174497792"]

\* float(text) == 0.0 for a decimal literal
FloatIsZero(text) == CompareMagnitude(Magnitude(text), HalfMinFloat) <= 0

\* float(text) is inf or -inf for a decimal literal
FloatIsInf(text) == CompareMagnitude(Magnitude(text), HalfPastMaxFloat) >= 0

\* The number text of a JSON value makes a float (float(integer + frac +
\* exp), or one of the constants NaN, Infinity, -Infinity): else an int
NumIsFloat(text) ==
    \/ text \in {"NaN", "Infinity", "-Infinity"}
    \/ FirstOf(text, {".", "e", "E"}) # 0

\* The number a JSON value holds is 0, 0.0 or -0.0
NumIsZero(text) ==
    IF text \in {"NaN", "Infinity", "-Infinity"} THEN FALSE
    ELSE IF NumIsFloat(text) THEN FloatIsZero(text)
    ELSE Magnitude(text).sig = ""

\* bool(v)
Truthy(v) ==
    CASE v.t = "str"   -> v.s # ""
      [] v.t = "num"   -> ~NumIsZero(v.s)
      [] v.t = "true"  -> TRUE
      [] v.t = "false" -> FALSE
      [] v.t = "null"  -> FALSE
      [] v.t = "obj"   -> Len(v.items) > 0
      [] v.t = "arr"   -> Len(v.items) > 0

\* dict(pairs).get(key): the last pair of that key, None without one
DictGet(obj, key) ==
    IF \E k \in 1..Len(obj.items) : obj.items[k][1] = key
    THEN obj.items[CHOOSE k \in 1..Len(obj.items) :
                       /\ obj.items[k][1] = key
                       /\ \A j \in (k + 1)..Len(obj.items) : obj.items[j][1] # key][2]
    ELSE JNull

-----------------------------------------------------------------------------
(* Text helpers of run_code_agent.py                                       *)

MAX_DIFF_CHARS == 12000
LLM_PREVIEW_CHARS == 500

FENCE == BT \o BT \o BT

\* A buggy variant: the cut keeps one character too many.
preview_off_by_one(text, n) ==
    LET t == Strip(text)
    IN  IF Len(t) <= n THEN t ELSE Take(t, n + 1) \o "..."

\* Lines 214-218
_preview(text, n) ==
    LET t == Strip(text)
    IN  IF Len(t) <= n THEN t ELSE Take(t, n) \o "..."

\* Lines 221-230
sanitize_llm_patch(text) ==
    With(Strip(Replace(text, "\r\n", "\n")), LAMBDA t0 :
    With(IF Contains(t0, FENCE)
         THEN Strip(Replace(Replace(t0, FENCE \o "diff", ""), FENCE, ""))
         ELSE t0, LAMBDA t1 :
    With(Find(t1, "diff --git"), LAMBDA idx :
    With(IF idx # -1 THEN From(t1, idx) ELSE t1, LAMBDA t2 :
    IF t2 # "" /\ ~EndsWith(t2, "\n") THEN t2 \o "\n" ELSE t2))))

\* Lines 244-247 and 255-258 on a parsed object: [ok, patch, notes]; ok = FALSE
\* is the AttributeError of .strip() on a value that is truthy and no str.
PatchOfObject(obj) ==
    LET pv == DictGet(obj, "patch")
        nv == DictGet(obj, "notes")
    IN  IF \/ Truthy(pv) /\ pv.t # "str"
           \/ Truthy(nv) /\ nv.t # "str"
        THEN [ok |-> FALSE, patch |-> "", notes |-> ""]
        ELSE [ok |-> TRUE,
              patch |-> IF Truthy(pv) THEN Strip(pv.s) ELSE "",
              notes |-> IF Truthy(nv) THEN Strip(nv.s) ELSE ""]

\* Lines 244-249 / 255-260: the try block on a candidate JSON text, with
\* `frames` Python frames in use in extract_patch_from_llm.
NoJson == [ok |-> FALSE, patch |-> "", notes |-> ""]
TryJson(text, frames) ==
    With(json_loads(text, frames), LAMBDA r :
    IF r.ok /\ r.v.t = "obj" THEN PatchOfObject(r.v) ELSE NoJson)

\* re.search(r"\{.*\}", raw, re.DOTALL).group(0): the first "{" to the last
\* "}", or None
search_braces(raw) ==
    With(Find(raw, "{"), LAMBDA open :
    With(RFind(raw, "}"), LAMBDA close :
    IF open # -1 /\ open < close THEN Some(Sub(raw, open + 1, close + 1)) ELSE None))

\* Lines 233-267: <<patch, notes>>; frames is the number of Python frames in
\* use, the one of extract_patch_from_llm included.
extract_patch_from_llm(text, frames) ==
    With(Strip(text), LAMBDA raw :
    With(IF StartsWith(raw, "{") THEN TryJson(raw, frames) ELSE NoJson, LAMBDA j1 :
    IF j1.ok THEN <<j1.patch, j1.notes>> ELSE
    With(search_braces(raw), LAMBDA m :
    With(IF m # None THEN TryJson(m[1], frames) ELSE NoJson, LAMBDA j2 :
    IF j2.ok THEN <<j2.patch, j2.notes>> ELSE
    With(Find(raw, "diff --git"), LAMBDA idx :
    IF idx # -1 THEN <<Strip(From(raw, idx)), "">> ELSE <<"", "">>)))))

\* Lines 270-278
looks_like_unified_diff(t) ==
    With(LStrip(t), LAMBDA s :
    IF ~StartsWith(s, "diff --git") THEN FALSE
    ELSE IF ~Contains(s, "\n--- ") \/ ~Contains(s, "\n+++ ") THEN FALSE
    ELSE IF ~Contains(s, "\n@@ ") THEN FALSE
    ELSE TRUE)

-----------------------------------------------------------------------------
(* canonicalize_llm_patch (lines 402-514)                                  *)

\* re.sub(r"^---\s+(?:a/)?dev/null$", "--- /dev/null", line) (line 447);
\* tok = "---", root = "a/".  Line 454 with "+++", "b/".  The "$" matches at
\* the end and before a newline that ends the line; that newline stays.
sub_dev_null(line, tok, root) ==
    With(LStrip(From(line, 3)), LAMBDA rest :
    With(IF EndsWith(rest, "\n") THEN "\n" ELSE "", LAMBDA nl :
    IF /\ StartsWith(line, tok) /\ IsSpace(Ch(line, 4))
       /\ Take(rest, Len(rest) - Len(nl)) \in {"dev/null", root \o "dev/null"}
    THEN tok \o " /dev/null" \o nl
    ELSE line))

\* A buggy variant: inside a hunk, "--- " and "+++ " lines are taken for
\* removal and addition lines and the hunk goes on.
canon_line_markers_keep_hunk(st, raw_line) ==
    With(RStrip(raw_line), LAMBDA line :
    LET Out(l, ih, pend, added) ==
            [in_hunk |-> ih, pending_bare_hunk |-> pend,
             bare_hunk_added |-> added, sec_out |-> Append(st.sec_out, l)]
        inc == IF st.pending_bare_hunk THEN st.bare_hunk_added + 1
               ELSE st.bare_hunk_added
    IN  IF StartsWith(line, "diff --git ")
        THEN Out(line, FALSE, FALSE, st.bare_hunk_added)
        ELSE IF StartsWith(line, "--- ") /\ ~st.in_hunk
        THEN Out(sub_dev_null(line, "---", "a/"), FALSE, FALSE, st.bare_hunk_added)
        ELSE IF StartsWith(line, "+++ ") /\ ~st.in_hunk
        THEN Out(sub_dev_null(line, "+++", "b/"), FALSE, FALSE, st.bare_hunk_added)
        ELSE IF StartsWith(line, "@@ ")
        THEN Out(line, TRUE, FALSE, st.bare_hunk_added)
        ELSE IF Strip(line) = "@@"
        THEN Out("@@ __BARE__ @@", TRUE, TRUE, 0)
        ELSE IF ~st.in_hunk
        THEN Out(line, st.in_hunk, st.pending_bare_hunk, st.bare_hunk_added)
        ELSE IF \/ StartsWith(line, "+") \/ StartsWith(line, "-")
                \/ StartsWith(line, " ") \/ StartsWith(line, "\\")
        THEN Out(line, st.in_hunk, st.pending_bare_hunk,
                 IF st.pending_bare_hunk /\ (StartsWith(line, "+") \/ line = "+")
                 THEN st.bare_hunk_added + 1 ELSE st.bare_hunk_added)
        ELSE IF line = ""
        THEN Out("+", st.in_hunk, st.pending_bare_hunk, inc)
        ELSE Out("+" \o line, st.in_hunk, st.pending_bare_hunk, inc))

\* The scanner with a line of no prefix taken as a context line.
canon_line_unprefixed_as_context(st, raw_line) ==
    With(RStrip(raw_line), LAMBDA line :
    LET Out(l, ih, pend, added) ==
            [in_hunk |-> ih, pending_bare_hunk |-> pend,
             bare_hunk_added |-> added, sec_out |-> Append(st.sec_out, l)]
        inc == IF st.pending_bare_hunk THEN st.bare_hunk_added + 1
               ELSE st.bare_hunk_added
    IN  IF StartsWith(line, "diff --git ")
        THEN Out(line, FALSE, FALSE, st.bare_hunk_added)
        ELSE IF StartsWith(line, "--- ")
        THEN Out(sub_dev_null(line, "---", "a/"), FALSE, FALSE, st.bare_hunk_added)
        ELSE IF StartsWith(line, "+++ ")
        THEN Out(sub_dev_null(line, "+++", "b/"), FALSE, FALSE, st.bare_hunk_added)
        ELSE IF StartsWith(line, "@@ ")
        THEN Out(line, TRUE, FALSE, st.bare_hunk_added)
        ELSE IF Strip(line) = "@@"
        THEN Out("@@ __BARE__ @@", TRUE, TRUE, 0)
        ELSE IF ~st.in_hunk
        THEN Out(line, st.in_hunk, st.pending_bare_hunk, st.bare_hunk_added)
        ELSE IF \/ StartsWith(line, "diff --git ")
                \/ StartsWith(line, "--- ") \/ StartsWith(line, "+++ ")
        THEN Out(line, FALSE, FALSE, st.bare_hunk_added)
        ELSE IF \/ StartsWith(line, "+") \/ StartsWith(line, "-")
                \/ StartsWith(line, " ") \/ StartsWith(line, "\\")
        THEN Out(line, st.in_hunk, st.pending_bare_hunk,
                 IF st.pending_bare_hunk /\ (StartsWith(line, "+") \/ line = "+")
                 THEN st.bare_hunk_added + 1 ELSE st.bare_hunk_added)
        ELSE IF line = ""
        THEN Out("+", st.in_hunk, st.pending_bare_hunk, inc)
        ELSE Out(" " \o line, st.in_hunk, st.pending_bare_hunk, st.bare_hunk_added))

\* Lines 434-500: one turn of the loop over a section's lines.
\* st = [in_hunk, pending_bare_hunk, bare_hunk_added, sec_out]
canon_line(st, raw_line) ==
    With(RStrip(raw_line), LAMBDA line :
    LET Out(l, ih, pend, added) ==
            [in_hunk |-> ih, pending_bare_hunk |-> pend,
             bare_hunk_added |-> added, sec_out |-> Append(st.sec_out, l)]
        inc == IF st.pending_bare_hunk THEN st.bare_hunk_added + 1
               ELSE st.bare_hunk_added
    IN  IF StartsWith(line, "diff --git ")
        THEN Out(line, FALSE, FALSE, st.bare_hunk_added)
        ELSE IF StartsWith(line, "--- ")
        THEN Out(sub_dev_null(line, "---", "a/"), FALSE, FALSE, st.bare_hunk_added)
        ELSE IF StartsWith(line, "+++ ")
        THEN Out(sub_dev_null(line, "+++", "b/"), FALSE, FALSE, st.bare_hunk_added)
        ELSE IF StartsWith(line, "@@ ")
        THEN Out(line, TRUE, FALSE, st.bare_hunk_added)
        ELSE IF Strip(line) = "@@"
        THEN Out("@@ __BARE__ @@", TRUE, TRUE, 0)
        ELSE IF ~st.in_hunk
        THEN Out(line, st.in_hunk, st.pending_bare_hunk, st.bare_hunk_added)
        ELSE IF \/ StartsWith(line, "diff --git ")
                \/ StartsWith(line, "--- ") \/ StartsWith(line, "+++ ")
        THEN Out(line, FALSE, FALSE, st.bare_hunk_added)
        ELSE IF \/ StartsWith(line, "+") \/ StartsWith(line, "-")
                \/ StartsWith(line, " ") \/ StartsWith(line, "\\")
        THEN Out(line, st.in_hunk, st.pending_bare_hunk,
                 IF st.pending_bare_hunk /\ (StartsWith(line, "+") \/ line = "+")
                 THEN st.bare_hunk_added + 1 ELSE st.bare_hunk_added)
        ELSE IF line = ""
        THEN Out("+", st.in_hunk, st.pending_bare_hunk, inc)
        ELSE Out("+" \o line, st.in_hunk, st.pending_bare_hunk, inc))

\* The loop of line 433 from lines[i] on.
RECURSIVE canon_loop(_, _, _)
canon_loop(st, lines, i) ==
    IF i > Len(lines)
    THEN st
    ELSE With(canon_line(st, lines[i]), LAMBDA next : canon_loop(next, lines, i + 1))

\* str(n) for n >= 0
RECURSIVE IntToStr(_)
IntToStr(n) ==
    IF n < 10 THEN Ch("0123456789", n + 1)
    ELSE IntToStr(n \div 10) \o Ch("0123456789", (n % 10) + 1)

\* A buggy variant: the header made for a bare hunk counts one line.
canon_section_header_one_line(sec) ==
    With(SplitLines(sec), LAMBDA lines :
    With(canon_loop([in_hunk |-> FALSE, pending_bare_hunk |-> FALSE,
                     bare_hunk_added |-> 0, sec_out |-> <<>>], lines, 1), LAMBDA st :
    LET fixed_sec == [k \in 1..Len(st.sec_out) |->
                         IF st.sec_out[k] = "@@ __BARE__ @@"
                         THEN "@@ -0,0 +1,1 @@"
                         ELSE st.sec_out[k]]
    IN  RStrip(Join(fixed_sec, "\n")) \o "\n"))

\* Lines 426-512: one section to its canonical text.
canon_section(sec) ==
    With(SplitLines(sec), LAMBDA lines :
    With(canon_loop([in_hunk |-> FALSE, pending_bare_hunk |-> FALSE,
                     bare_hunk_added |-> 0, sec_out |-> <<>>], lines, 1), LAMBDA st :
    LET n  == IF st.bare_hunk_added > 0 THEN st.bare_hunk_added ELSE 1
        fixed_sec == [k \in 1..Len(st.sec_out) |->
                         IF st.sec_out[k] = "@@ __BARE__ @@"
                         THEN "@@ -0,0 +1," \o IntToStr(n) \o " @@"
                         ELSE st.sec_out[k]]
    IN  RStrip(Join(fixed_sec, "\n")) \o "\n"))

\* re.split(r"(?m)^(?=diff --git )", txt): the parts of txt from 0-based
\* start on; a part ends where a line begins with "diff --git ".
RECURSIVE split_sections(_, _)
split_sections(txt, start) ==
    LET IsSplit(k) == /\ (k = 0 \/ Ch(txt, k) = "\n")
                      /\ Sub(txt, k + 1, k + 11) = "diff --git "
        later == {k \in (start + 1)..Len(txt) : IsSplit(k)}
    IN  IF later = {}
        THEN <<From(txt, start)>>
        ELSE LET k == CHOOSE k \in later : \A j \in later : k <= j
             IN  <<Sub(txt, start + 1, k)>> \o split_sections(txt, k)

\* [p for p in parts if p.strip()]
RECURSIVE non_blank(_)
non_blank(parts) ==
    IF Len(parts) = 0 THEN <<>>
    ELSE IF Strip(Head(parts)) = "" THEN non_blank(Tail(parts))
    ELSE <<Head(parts)>> \o non_blank(Tail(parts))

canonicalize_llm_patch(patch) ==
    With(Strip(Replace(patch, "\r\n", "\n")), LAMBDA txt0 :
    IF ~Contains(txt0, "diff --git") THEN "" ELSE
    With(From(txt0, Find(txt0, "diff --git")), LAMBDA txt :
    With((IF Sub(txt, 1, 11) = "diff --git " THEN <<"">> ELSE <<>>)
         \o split_sections(txt, 0), LAMBDA parts :
    With(non_blank(parts), LAMBDA sections :
    With([k \in 1..Len(sections) |-> canon_section(sections[k])], LAMBDA out_sections :
    RStrip(Join(out_sections, "\n")) \o "\n")))))

-----------------------------------------------------------------------------
(* Prompts of attempt_llm_patch                                            *)

\* repr() of a tuple of str
RECURSIVE ReprItems(_)
ReprItems(tup) ==
    IF Len(tup) = 0 THEN ""
    ELSE IF Len(tup) = 1 THEN "'" \o tup[1] \o "'"
    ELSE "'" \o tup[1] \o "', " \o ReprItems(Tail(tup))
TupleRepr(tup) ==
    IF Len(tup) = 1 THEN "(" \o ReprItems(tup) \o ",)" ELSE "(" \o ReprItems(tup) \o ")"

\* Lines 168-211; tree_text is what repo_file_tree() returned.
build_code_prompt(title, body, review, tree_text) ==
    Strip("\n"
          \o "SYSTEM:\n"
          \o "You are a senior software engineer acting as a GitHub Code Agent.\n"
          \o "\n"
          \o "DEVELOPER (ABSOLUTE RULES):\n"
          \o "Return ONLY a valid JSON object with EXACT keys:\n"
          \o "- \"patch\": string (a unified diff for ´git apply´)\n"
          \o "- \"notes\": string (1-2 short lines)\n"
          \o "\n"
          \o "Rules for JSON:\n"
          \o "- Output MUST be valid JSON (double quotes, no trailing commas).\n"
          \o "- No markdown, no code fences, no extra text before/after JSON.\n"
          \o "\n"
          \o "Rules for patch:\n"
          \o "- patch MUST start with \"diff --git a/\".\n"
          \o "- Do NOT include lines starting with: \"index \", \"new file mode\", \"deleted file mode\".\n"
          \o "- For new files you MUST use exactly: \"--- /dev/null\" and \"+++ b/<path>\".\n"
          \o "- NEVER output '--- dev/null' (without slash).\n"
          \o "- Every changed file MUST have at least one @@ hunk.\n"
          \o "- Inside hunks, every line MUST start with '+', '-', ' ', or '\\'.\n"
          \o "- Keep changes minimal and directly related to Issue / review feedback.\n"
          \o "\n"
          \o "Safety constraints:\n"
          \o "- Forbidden exact files: "
          \o TupleRepr(policy.DENY_EXACT)
          \o "\n"
          \o "- Forbidden path prefixes: "
          \o TupleRepr(policy.DENY_PATH_PREFIXES)
          \o "\n"
          \o "- Allowed path prefixes: "
          \o TupleRepr(policy.ALLOWED_PATH_PREFIXES)
          \o "\n"
          \o "- Allowed exact files: "
          \o TupleRepr(policy.ALLOWED_EXACT)
          \o "\n"
          \o "\n"
          \o "Repository file list (partial):\n"
          \o tree_text
          \o "\n"
          \o "\n"
          \o "Issue title:\n"
          \o title
          \o "\n"
          \o "\n"
          \o "Issue body:\n"
          \o body
          \o "\n"
          \o "\n"
          \o "Latest AI review feedback (fix these issues if present):\n"
          \o review
          \o "\n"
          \o "\n"
          \o "OUTPUT (JSON only):\n")

\* Lines 604-613
retry_core(title, body, review) ==
    Strip("\n"
          \o "Return a patch for ´git apply´ as JSON.\n"
          \o "\n"
          \o "Issue:\n"
          \o title
          \o "\n"
          \o body
          \o "\n"
          \o "\n"
          \o "Review feedback to fix:\n"
          \o review
          \o "\n")

\* Lines 639-654
repair_core(title, body, review) ==
    Strip("\n"
          \o "Your previous patch failed to apply.\n"
          \o "\n"
          \o "Return a NEW patch (JSON) that WILL apply cleanly with ´git apply´.\n"
          \o "If a file exists, MODIFY it. If missing, CREATE it using exactly:\n"
          \o "--- /dev/null\n"
          \o "+++ b/<path>\n"
          \o "and @@ hunks.\n"
          \o "\n"
          \o "Issue:\n"
          \o title
          \o "\n"
          \o body
          \o "\n"
          \o "\n"
          \o "AI review feedback:\n"
          \o review
          \o "\n")

\* Lines 566-579
json_patch_prompt(core) ==
    Strip(core)
    \o "\n"
    \o "\n"
    \o "OUTPUT (JSON only): {\"patch\": \"...\", \"notes\": \"...\"}\n"
    \o "Rules:\n"
    \o "- Output MUST be valid JSON only. No extra text.\n"
    \o "- JSON keys must be exactly: \"patch\", \"notes\".\n"
    \o "- \"patch\" MUST be a unified diff starting with: diff --git a/\n"
    \o "- Do NOT include lines starting with: index , new file mode, deleted file mode.\n"
    \o "- For new files use exactly: --- /dev/null and +++ b/<path>\n"
    \o "- Inside hunks, every line must start with '+', '-', ' ', or '\\\\'.\n"

-----------------------------------------------------------------------------
(* Inputs: what the collaborators may answer                               *)

\* agents/llm_client.py line 23
MOCK_TEXT == "status=approved\nissues:\n- None\nsuggestions:\n- None\n"

\* A new file with a bare hunk header and two lines without a prefix.
NewFileDiff ==
    "diff --git a/src/a.py b/src/a.py\n--- /dev/null\n+++ b/src/a.py\n@@\nx = 1\ny = 2"
ModifyDiff ==
    "diff --git a/src/a.py b/src/a.py\n--- a/src/a.py\n+++ b/src/a.py\n@@ -1 +1 @@\n-x\n+y\n"
DeniedDiff ==
    "diff --git a/Dockerfile b/Dockerfile\n--- a/Dockerfile\n+++ b/Dockerfile\n@@ -1 +1 @@\n-a\n+b\n"

RawFenced == FENCE \o "diff\n" \o NewFileDiff \o "\n" \o FENCE
RawJson ==
    "{\"patch\": \"diff --git a/src/a.py b/src/a.py\\n--- a/src/a.py\\n+++ b/src/a.py\\n"
    \o "@@ -1 +1 @@\\n-x\\n+y\\n\", \"notes\": \"swap\"}"
RawDenied == "Here is the patch:\n" \o DeniedDiff
\* One allowed and one denied file.
RawMixed == ModifyDiff \o DeniedDiff
\* A creation whose sentinel carries the root prefix.
RawNearMiss ==
    "diff --git a/src/b.py b/src/b.py\n--- a/dev/null\n+++ b/src/b.py\n@@ -0,0 +1 @@\n+z\n"
\* A denied file under the root prefixes of diff.mnemonicPrefix.
RawOtherRoot ==
    "diff --git i/Dockerfile w/Dockerfile\n--- i/Dockerfile\n+++ w/Dockerfile\n@@ -1 +1 @@\n-a\n+b\n"
\* More text than a preview holds, a patch at its end.
RawLong == Rep("x", LLM_PREVIEW_CHARS + 1) \o "\n" \o ModifyDiff
\* A diff header and nothing else: no file markers, no hunk.
RawHeaderOnly == "diff --git a/src/a.py b/src/a.py\n"

\* A JSON answer whose patch holds U+2028 before a marker of a denied file.
RawLineSeparator ==
    "{\"patch\": \"diff --git a/src/a.py b/src/a.py\\n--- a/src/a.py\\n+++ b/src/a.py"
    \o "\\u2028+++ b/Dockerfile\\n@@ -1 +1 @@\\n-x\\n+y\\n\"}"

\* A patch that names the blob it changes.
RawIndexed ==
    "diff --git a/src/a.py b/src/a.py\nindex 587be6b..975fbec 100644\n"
    \o "--- a/src/a.py\n+++ b/src/a.py\n@@ -1 +1 @@\n-x\n+y\n"
\* A JSON answer whose patch adds a line that holds a lone surrogate.
RawSurrogate ==
    "{\"patch\": \"diff --git a/src/a.py b/src/a.py\\n--- a/src/a.py\\n+++ b/src/a.py\\n"
    \o "@@ -1 +1 @@\\n-x\\n+\\ud800\\n\", \"notes\": \"n\"}"
\* A JSON answer nested as deep as the interpreter allows no parser to go,
\* and a patch behind its last brace.
DeepNesting == 995
RawDeep ==
    "{\"a\":" \o Rep("[", DeepNesting) \o Rep("]", DeepNesting)
    \o ", \"patch\": \"diff --git a/x b/x\"}"

RawTexts ==
    {"", RawFenced, RawJson, RawDenied, RawMixed, RawNearMiss, RawOtherRoot, RawLong,
     RawHeaderOnly, RawLineSeparator, RawIndexed, RawSurrogate, RawDeep}

\* What llm_chat returns: (text, mode_used).
Responses == {<<MOCK_TEXT, "mock">>} \cup {<<r, "openai_chat">> : r \in RawTexts}

Titles == {"Add wc"}
Bodies == {"Count words"}
Reviews == {"", "AI-REVIEW: status=needs-fix"}

-----------------------------------------------------------------------------
(* The repository that git works on, and what git 2.39.2 answers to        *)
(* "git apply --whitespace=fix" and "git apply --3way --whitespace=fix"    *)
(* (lines 520-535) and to "git ls-files" (line 154).                       *)
(*                                                                         *)
(* A repository is its tracked and untracked files in path order, each     *)
(* with the content in the working tree (None: no such file) and the entry *)
(* of the index (<<>>: none, <<c>>: content c at stage 0, <<b, o, t>>:     *)
(* unmerged, base b, ours o, theirs t) and whether the file is the one the *)
(* entry was made from, and the contents that the object store holds as    *)
(* blobs.                                                                  *)
(*                                                                         *)
(* The inputs covered.  The patch ends in "\n".  A section begins with a   *)
(* line "diff --git ..."; its header lines are "index A..B" with or        *)
(* without the mode 100644, "--- N" and "+++ N"; its hunks are a line      *)
(* "@@ -a[,b] +c[,d] @@" and lines that are empty or begin with " ", "-"   *)
(* or "+".  No line "--- ", "+++ " or "@@ -" stands outside a section.     *)
(* The white space in a line is the blank and the tab.  A name is made of  *)
(* the characters of PathBytes, its components are not empty and none is   *)
(* ".", ".." or a name of the .git directory; no name is a directory or    *)
(* lies below a file.  An "index " line names blobs of BlobIds.  The files *)
(* are lines that end in "\n", with mode 100644.  A three-way merge of     *)
(* three contents that differ from each other is covered for contents of   *)
(* at most one line.  The entries of the index were made a second or more  *)
(* before git runs: a file that git writes without the index is never      *)
(* taken for the one the entry was made from.                              *)

\* uptodate: the file of the working tree is the one that the index entry
\* was made from (git compares the stat data that the entry recorded, not
\* the contents).  In a repository as git checked it out, that is so for
\* the files that hold what the index holds.
Entry(path, work, index, uptodate) ==
    [path |-> path, work |-> work, index |-> index, uptodate |-> uptodate]
File(path, work, index) == Entry(path, work, index, Len(index) = 1 /\ work = index)

\* The blob ids (SHA-1) of the contents that a patch of this model names.
BlobIds ==
    <<<<"", "e69de29bb2d1d6434b8b29ae775ad8c2e48c5391">>,
      <<"x\n", "587be6b4c3f93f93c489c0111bba5596147a26cb">>,
      <<"y\n", "975fbec8256d3e8a3797e7a3611380f27c49f4ac">>,
      <<"z\n", "b68025345d5301abad4d9ec9166f455243a0d746">>,
      <<"a\n", "78981922613b2afb6025042ff6bd878ac1994e85">>,
      <<"r\n", "4286f428e3b19fe84de503916ce0e7dc8deefea1">>,
      <<"x = 1\ny = 2\n", "2c1854573a40224de599dd57077637eb5f882072">>>>
BlobId(c) ==
    IF \E k \in 1..Len(BlobIds) : BlobIds[k][1] = c
    THEN BlobIds[CHOOSE k \in 1..Len(BlobIds) : BlobIds[k][1] = c][2]
    ELSE ""

\* The shortest abbreviation of an object name that git resolves, and the
\* length of a full name.
MINIMUM_ABBREV == 4
GIT_SHA1_HEXSZ == 40

\* The blob an abbreviated name stands for, None when there is none or more
\* than one.
find_blob(objects, prefix) ==
    With(Lower(prefix), LAMBDA q :
    IF Len(q) < MINIMUM_ABBREV \/ Len(q) > GIT_SHA1_HEXSZ
       \/ \E k \in 1..Len(q) : ~Contains(HexDigits, Ch(q, k))
    THEN None
    ELSE With({c \in objects : StartsWith(BlobId(c), q)}, LAMBDA found :
         IF Cardinality(found) = 1 THEN Some(CHOOSE c \in found : TRUE) ELSE None))

\* The entry of a path; a path the repository does not know has no file and
\* no index entry.
FileOf(rep, path) ==
    IF \E k \in 1..Len(rep.files) : rep.files[k].path = path
    THEN rep.files[CHOOSE k \in 1..Len(rep.files) : rep.files[k].path = path]
    ELSE Entry(path, None, <<>>, FALSE)

\* The characters of a name, in the order of their bytes
PathBytes == "-./0123456789ABCDEFGHIJKLMNOPQRSTUVWXYZ_abcdefghijklmnopqrstuvwxyz"

\* a sorts before b (memcmp, then the shorter one)
RECURSIVE PathBefore(_, _)
PathBefore(a, b) ==
    IF b = "" THEN FALSE
    ELSE IF a = "" THEN TRUE
    ELSE IF Ch(a, 1) = Ch(b, 1) THEN PathBefore(From(a, 1), From(b, 1))
    ELSE Find(PathBytes, Ch(a, 1)) < Find(PathBytes, Ch(b, 1))

\* The files with f in the place of the entry of its path, or at the place
\* that the order gives a new path; an entry without a file and without an
\* index entry is none.
RECURSIVE SetFiles(_, _)
SetFiles(files, f) ==
    With(IF f.work = None /\ f.index = <<>> THEN <<>> ELSE <<f>>, LAMBDA entry :
    IF Len(files) = 0 THEN entry
    ELSE IF Head(files).path = f.path THEN entry \o Tail(files)
    ELSE IF PathBefore(f.path, Head(files).path) THEN entry \o files
    ELSE <<Head(files)>> \o SetFiles(Tail(files), f))
SetFile(rep, f) == [rep EXCEPT !.files = SetFiles(rep.files, f)]

\* The pieces of a text between its "\n", without the empty piece after the
\* last one.
RECURSIVE GitLines(_)
GitLines(s) ==
    IF s = "" THEN <<>>
    ELSE With(Find(s, "\n"), LAMBDA k :
         IF k < 0 THEN <<s>> ELSE <<Take(s, k)>> \o GitLines(From(s, k + 1)))

RECURSIVE GitText(_)
GitText(lines) ==
    IF Len(lines) = 0 THEN "" ELSE Head(lines) \o "\n" \o GitText(Tail(lines))

\* The white space of a line
Blanks == {" ", "\t"}

\* ws.c: a line of white space only
ws_blank_line(s) == \A k \in 1..Len(s) : Ch(s, k) \in Blanks

\* The white space that a line begins with
Indent(s) ==
    With(FirstOf(s, {Ch(s, i) : i \in 1..Len(s)} \ Blanks), LAMBDA k :
    IF k = 0 THEN s ELSE Take(s, k - 1))

\* ws.c: the white space errors of a line under the default rule (trailing
\* white space, a blank before a tab in the indent), as git names them
ws_check(s) ==
    With(DropTrailing(s, Blanks), LAMBDA t :
    Join((IF Len(t) < Len(s) THEN <<"trailing whitespace">> ELSE <<>>)
         \o (IF Contains(Indent(t), " \t") THEN <<"space before tab in indent">> ELSE <<>>),
         ", "))

\* The indent up to its last tab without the blanks before a tab: eight
\* blanks in a row are a tab, fewer are dropped
RECURSIVE fix_indent(_, _)
fix_indent(s, consecutive) ==
    IF s = "" THEN ""
    ELSE IF Ch(s, 1) # " " THEN Ch(s, 1) \o fix_indent(From(s, 1), 0)
    ELSE IF consecutive = 7 THEN "\t" \o fix_indent(From(s, 1), 0)
    ELSE fix_indent(From(s, 1), consecutive + 1)

\* ws.c: a line with its white space errors fixed
ws_fix_copy(s) ==
    With(DropTrailing(s, Blanks), LAMBDA t :
    With(RFind(Indent(t), "\t"), LAMBDA last_tab :
    IF last_tab < 0 \/ ~Contains(Take(t, last_tab), " ") THEN t
    ELSE fix_indent(Take(t, last_tab + 1), 0) \o From(t, last_tab + 1)))

\* The white space errors that git prints; the others are counted only.
squelch_whitespace_errors == 5

\* One white space error, on line linenr of the input; st is what git keeps
\* over a run: what it wrote to stderr (err), the white space errors
\* (errors) and the lines it fixed (fixed).
record_ws_error(st, names, text, linenr) ==
    IF names = "" THEN st
    ELSE IF st.errors >= squelch_whitespace_errors THEN [st EXCEPT !.errors = @ + 1]
    ELSE [st EXCEPT !.errors = @ + 1,
                    !.err = @ \o "<stdin>:" \o IntToStr(linenr) \o ": " \o names \o ".\n"
                              \o text \o "\n"]

\* The name behind the first component of a path (-p1), None without one
skip_tree_prefix(s) ==
    With(Find(s, "/"), LAMBDA k : IF k <= 0 THEN None ELSE Some(From(s, k + 1)))

\* The name on a "--- " or "+++ " line with its first component stripped
\* (-p1); it ends at a tab.  None without a "/" or with nothing behind it.
find_name(marker) ==
    With(IF Find(marker, "\t") < 0 THEN marker ELSE Take(marker, Find(marker, "\t")),
         LAMBDA m :
    With(Find(m, "/"), LAMBDA k :
    IF k < 0 \/ k + 1 = Len(m) THEN None ELSE Some(From(m, k + 1))))

\* The second name of a "diff --git" line from the 0-based n on: the name
\* is the first n characters when white space follows them and the rest,
\* without its first component, is the same.
RECURSIVE second_name(_, _)
second_name(name, n) ==
    IF n >= Len(name) THEN None
    ELSE IF Ch(name, n + 1) \notin Blanks THEN second_name(name, n + 1)
    ELSE With(skip_tree_prefix(From(name, n + 1)), LAMBDA second :
         IF second = None THEN None
         ELSE IF second[1] = Take(name, n) THEN Some(Take(name, n))
         ELSE second_name(name, n + 1))

\* The name that "diff --git a/P b/P" gives a section whose markers name
\* nothing: None when the two names differ.
git_header_name(line) ==
    With(skip_tree_prefix(From(line, 11)), LAMBDA name :
    IF name = None THEN None ELSE second_name(name[1], 0))

\* A position and a count, "a" or "a,b", at 0-based i: <<found, a, b, end>>
HunkRange(s, i) ==
    With(DigitsEnd(s, i), LAMBDA j :
    IF j = i THEN <<FALSE, 0, 0, i>>
    ELSE IF Ch(s, j + 1) # "," THEN <<TRUE, DigitsToInt(Sub(s, i + 1, j)), 1, j>>
    ELSE With(DigitsEnd(s, j + 1), LAMBDA k :
         IF k = j + 1 THEN <<FALSE, 0, 0, i>>
         ELSE <<TRUE, DigitsToInt(Sub(s, i + 1, j)), DigitsToInt(Sub(s, j + 2, k)), k>>))

NoHunk == [ok |-> FALSE, oldpos |-> 0, oldlines |-> 0, newpos |-> 0, newlines |-> 0]

\* "@@ -a[,b] +c[,d] @@"
HunkHeader(line) ==
    IF ~StartsWith(line, "@@ -") THEN NoHunk
    ELSE With(HunkRange(line, 4), LAMBDA o :
         IF ~o[1] \/ Sub(line, o[4] + 1, o[4] + 2) # " +" THEN NoHunk
         ELSE With(HunkRange(line, o[4] + 2), LAMBDA n :
              IF ~n[1] \/ Sub(line, n[4] + 1, n[4] + 3) # " @@" THEN NoHunk
              ELSE [ok |-> TRUE, oldpos |-> o[2], oldlines |-> o[3],
                    newpos |-> n[2], newlines |-> n[3]]))

\* The lines of a hunk from lines[k] on, as long as the header's counts ask
\* for a line: <<k, old lines left, new lines left, body>>
RECURSIVE parse_fragment(_, _, _, _, _)
parse_fragment(lines, k, oc, nc, body) ==
    IF (oc = 0 /\ nc = 0) \/ k > Len(lines) THEN <<k, oc, nc, body>>
    ELSE With(lines[k], LAMBDA b :
         IF b = "" \/ Ch(b, 1) = " "
         THEN parse_fragment(lines, k + 1, oc - 1, nc - 1, Append(body, <<" ", From(b, 1)>>))
         ELSE IF Ch(b, 1) = "-"
         THEN parse_fragment(lines, k + 1, oc - 1, nc, Append(body, <<"-", From(b, 1)>>))
         ELSE IF Ch(b, 1) = "+"
         THEN parse_fragment(lines, k + 1, oc, nc - 1, Append(body, <<"+", From(b, 1)>>))
         ELSE <<k, oc, nc, body>>)

\* The white space errors of the lines of a hunk that the result keeps
\* (context and added lines); linenr is the line of the hunk header.
RECURSIVE check_whitespace(_, _, _, _)
check_whitespace(st, body, q, linenr) ==
    IF q > Len(body) THEN st
    ELSE check_whitespace(
             IF body[q][1] = "-" THEN st
             ELSE record_ws_error(st, ws_check(body[q][2]), body[q][2], linenr + q),
             body, q + 1, linenr)

\* git dies: what it wrote so far, then the message
Fatal(ws, msg) == [fatal |-> TRUE, msg |-> ws.err \o msg, patches |-> <<>>, ws |-> ws]

\* The hunks from lines[j] on; linenr is git's count of the lines read.
RECURSIVE Hunks(_, _, _, _, _)
Hunks(lines, j, linenr, hunks, ws) ==
    IF j > Len(lines) \/ ~StartsWith(lines[j], "@@ -")
    THEN [fatal |-> FALSE, j |-> j, linenr |-> linenr, hunks |-> hunks, ws |-> ws]
    ELSE With(HunkHeader(lines[j]), LAMBDA h :
         IF ~h.ok
         THEN [fatal |-> TRUE, j |-> j, linenr |-> linenr, hunks |-> hunks, ws |-> ws]
         ELSE With(parse_fragment(lines, j + 1, h.oldlines, h.newlines, <<>>), LAMBDA b :
              With(linenr + (b[1] - j), LAMBDA nr :
              With(check_whitespace(ws, b[4], 1, linenr), LAMBDA ws2 :
              IF b[2] # 0 \/ b[3] # 0 \/ \A q \in 1..Len(b[4]) : b[4][q][1] = " "
              THEN [fatal |-> TRUE, j |-> j, linenr |-> nr, hunks |-> hunks, ws |-> ws2]
              ELSE Hunks(lines, b[1], nr,
                         Append(hunks, [oldpos |-> h.oldpos, newpos |-> h.newpos,
                                        body |-> b[4], linenr |-> linenr]), ws2)))))

\* The "index ", "--- " and "+++ " lines from lines[j] on; old and new are
\* the names known so far (None: not known), bad names the marker that
\* contradicts them.
RECURSIVE ExtendedHeader(_, _, _, _, _)
ExtendedHeader(lines, j, old, new, idx) ==
    IF j > Len(lines)
    THEN [j |-> j, old |-> old, new |-> new, idx |-> idx, bad |-> ""]
    ELSE With(lines[j], LAMBDA l :
         IF StartsWith(l, "index ")
         THEN ExtendedHeader(lines, j + 1, old, new, Some(From(l, 6)))
         ELSE IF StartsWith(l, "--- ")
         THEN With(find_name(From(l, 4)), LAMBDA nm :
              IF old # None /\ old # nm
              THEN [j |-> j, old |-> old, new |-> new, idx |-> idx, bad |-> "old"]
              ELSE ExtendedHeader(lines, j + 1, nm, new, idx))
         ELSE IF StartsWith(l, "+++ ")
         THEN With(find_name(From(l, 4)), LAMBDA nm :
              IF new # None /\ new # nm
              THEN [j |-> j, old |-> old, new |-> new, idx |-> idx, bad |-> "new"]
              ELSE ExtendedHeader(lines, j + 1, old, nm, idx))
         ELSE [j |-> j, old |-> old, new |-> new, idx |-> idx, bad |-> ""])

\* The bytes of the input from lines[i] on
RECURSIVE Size(_, _)
Size(lines, i) == IF i > Len(lines) THEN 0 ELSE Len(lines[i]) + 1 + Size(lines, i + 1)

\* The end of the input: the patches read
NoMorePatches(patches, ws) ==
    IF Len(patches) = 0
    THEN Fatal(ws, "error: No valid patches in input (allow with \"--allow-empty\")\n")
    ELSE [fatal |-> FALSE, msg |-> "", patches |-> patches, ws |-> ws]

\* The patches of an input, from lines[i] on.  No header is looked for in
\* a line that fewer than six bytes follow.  The names of a section are
\* those of its markers, and that of the "diff --git" line when no marker
\* names one; a section with one name only is an error.  A section that is
\* its "diff --git" line alone is no patch: git counts the line twice and
\* keeps its name (stale) for the markers of the section that follows.
RECURSIVE Patches(_, _, _, _, _, _)
Patches(lines, i, linenr, stale, patches, ws) ==
    IF i > Len(lines) THEN NoMorePatches(patches, ws)
    ELSE IF StartsWith(lines[i], "@@ -") /\ HunkHeader(lines[i]).ok
    THEN Fatal(ws, "error: patch fragment without header at line " \o IntToStr(linenr)
                   \o ": " \o lines[i] \o "\n")
    ELSE IF Size(lines, i + 1) < 6 THEN NoMorePatches(patches, ws)
    ELSE IF ~StartsWith(lines[i], "diff --git ")
    THEN Patches(lines, i + 1, linenr + 1, stale, patches, ws)
    ELSE With(ExtendedHeader(lines, i + 1, stale, stale, None), LAMBDA x :
         With(linenr + (x.j - i), LAMBDA nr :
         With(x.old = None /\ x.new = None, LAMBDA nameless :
         With(IF nameless THEN git_header_name(lines[i]) ELSE x.old, LAMBDA old :
         With(IF nameless THEN git_header_name(lines[i]) ELSE x.new, LAMBDA new :
         IF x.bad # ""
         THEN Fatal(ws, "error: git apply: bad git-diff - inconsistent " \o x.bad
                        \o " filename on line " \o IntToStr(linenr + 1) \o "\n")
         ELSE IF nameless /\ old = None
         THEN Fatal(ws, "error: git diff header lacks filename information when removing "
                        \o "1 leading pathname component (line " \o IntToStr(nr) \o ")\n")
         ELSE IF old = None \/ new = None
         THEN Fatal(ws, "error: git diff header lacks filename information (line "
                        \o IntToStr(nr) \o ")\n")
         ELSE IF x.j = i + 1
         THEN Patches(lines, i + 1, linenr + 2, old, patches, ws)
         ELSE With(Hunks(lines, x.j, nr, <<>>, ws), LAMBDA hs :
              IF hs.fatal
              THEN Fatal(hs.ws, "error: corrupt patch at line " \o IntToStr(hs.linenr) \o "\n")
              ELSE IF Len(hs.hunks) = 0
              THEN Fatal(hs.ws, "error: patch with only garbage at line "
                                \o IntToStr(hs.linenr) \o "\n")
              ELSE Patches(lines, hs.j, hs.linenr, None,
                           Append(patches, [old |-> old[1], new |-> new[1],
                                            index |-> x.idx, hunks |-> hs.hunks]),
                           hs.ws)))))))

\* The texts of the lines of a hunk whose kind is in kinds
RECURSIVE HunkLines(_, _)
HunkLines(body, kinds) ==
    IF Len(body) = 0 THEN <<>>
    ELSE (IF Head(body)[1] \in kinds THEN <<Head(body)[2]>> ELSE <<>>)
         \o HunkLines(Tail(body), kinds)

\* The lines that a hunk leaves: the added lines with their white space
\* fixed, and the context as the hunk has it, or fixed like the lines that
\* the hunk was matched with (fixed).
RECURSIVE Postimage(_, _)
Postimage(body, fixed) ==
    IF Len(body) = 0 THEN <<>>
    ELSE (IF Head(body)[1] = "+" THEN <<ws_fix_copy(Head(body)[2])>>
          ELSE IF Head(body)[1] = "-" THEN <<>>
          ELSE IF fixed THEN <<ws_fix_copy(Head(body)[2])>>
          ELSE <<Head(body)[2]>>)
         \o Postimage(Tail(body), fixed)

RECURSIVE Patched(_)
Patched(texts) ==
    IF Len(texts) = 0 THEN <<>> ELSE <<<<Head(texts), TRUE>>>> \o Patched(Tail(texts))

RECURSIVE Unpatched(_)
Unpatched(texts) ==
    IF Len(texts) = 0 THEN <<>> ELSE <<<<Head(texts), FALSE>>>> \o Unpatched(Tail(texts))

RECURSIVE ImageLines(_)
ImageLines(img) ==
    IF Len(img) = 0 THEN <<>> ELSE <<Head(img)[1]>> \o ImageLines(Tail(img))

\* The blank lines that a hunk adds at its end, behind its last line that
\* is removed or not blank: <<how many, the first of them in the body>>
new_blank_lines_at_end(body) ==
    With({q \in 1..Len(body) : body[q][1] = "-" \/ ~ws_blank_line(body[q][2])}, LAMBDA solid :
    With(IF solid = {} THEN 0 ELSE CHOOSE q \in solid : \A r \in solid : r <= q, LAMBDA last :
    With({q \in (last + 1)..Len(body) : body[q][1] = "+"}, LAMBDA added :
    IF added = {} THEN <<0, 0>>
    ELSE <<Cardinality(added), CHOOSE q \in added : \A r \in added : q <= r>>)))

\* The lines pre at the 0-based pos of an image, a sequence of
\* <<line, patched>>: "exact" when they are the lines of the image, "fixed"
\* when they are so once the white space errors of both are fixed, "" when
\* they are not there.  No line of them was written by an earlier hunk;
\* lines beyond the end of the image are blank ones, behind one that is not.
match_fragment(img, pre, pos, match_beginning, match_end) ==
    With(IF Len(pre) + pos <= Len(img) THEN Len(pre) ELSE Len(img) - pos, LAMBDA limit :
    IF \/ match_end /\ Len(pre) + pos < Len(img)
       \/ match_beginning /\ pos # 0
       \/ \E q \in 1..limit : img[pos + q][2]
    THEN ""
    ELSE IF limit = Len(pre) /\ \A q \in 1..limit : img[pos + q][1] = pre[q]
    THEN "exact"
    ELSE IF limit < Len(pre) /\ \A q \in 1..limit : ws_blank_line(pre[q])
    THEN ""
    ELSE IF /\ \A q \in 1..limit : ws_fix_copy(pre[q]) = ws_fix_copy(img[pos + q][1])
            /\ \A q \in (limit + 1)..Len(pre) : ws_blank_line(pre[q])
    THEN "fixed"
    ELSE "")

\* One hunk on an image: the lines that the hunk removes or keeps must be
\* found at the start of the file when the hunk begins at line 0 or 1, at
\* its end when no context follows the changes, and else as near as can be
\* to where the header says, the later place first.  Blank lines that the
\* hunk adds at the end of the file are a white space error, and dropped.
apply_one_fragment(st, img, h) ==
    With(HunkLines(h.body, {" ", "-"}), LAMBDA pre :
    With(h.oldpos <= 1, LAMBDA match_beginning :
    With(h.body[Len(h.body)][1] # " ", LAMBDA match_end :
    With(IF match_beginning THEN 0
         ELSE IF match_end THEN Len(img) - Len(pre)
         ELSE IF h.newpos > 0 THEN h.newpos - 1 ELSE 0, LAMBDA guess :
    With(IF guess < 0 \/ guess > Len(img) THEN Len(img) ELSE guess, LAMBDA line :
    With([pos \in 0..Len(img) |-> match_fragment(img, pre, pos, match_beginning, match_end)],
         LAMBDA how :
    With({pos \in 0..Len(img) : how[pos] # ""}, LAMBDA found :
    With([st EXCEPT !.fixed = @ + Cardinality({q \in 1..Len(h.body) :
                                     /\ h.body[q][1] = "+"
                                     /\ ws_fix_copy(h.body[q][2]) # h.body[q][2]})],
         LAMBDA st1 :
    IF found = {} THEN [ok |-> FALSE, img |-> img, st |-> st1]
    ELSE With(CHOOSE pos \in found : \A q \in found :
                  \/ (IF pos >= line THEN pos - line ELSE line - pos)
                         < (IF q >= line THEN q - line ELSE line - q)
                  \/ /\ (IF pos >= line THEN pos - line ELSE line - pos)
                            = (IF q >= line THEN q - line ELSE line - q)
                     /\ (pos >= line \/ q < line), LAMBDA best :
         With(Postimage(h.body, how[best] = "fixed"), LAMBDA post :
         With(new_blank_lines_at_end(h.body), LAMBDA blank :
         With(IF Len(pre) < Len(img) - best THEN Len(pre) ELSE Len(img) - best, LAMBDA limit :
         IF blank[1] > 0 /\ Len(pre) + best >= Len(img)
         THEN [ok |-> TRUE,
               img |-> SubSeq(img, 1, best)
                       \o Patched(SubSeq(post, 1, Len(post) - blank[1]))
                       \o SubSeq(img, best + limit + 1, Len(img)),
               st |-> record_ws_error(st1, "new blank line at EOF", "+",
                                      h.linenr + blank[2])]
         ELSE [ok |-> TRUE,
               img |-> SubSeq(img, 1, best) \o Patched(post)
                       \o SubSeq(img, best + limit + 1, Len(img)),
               st |-> st1]))))))))))))

RECURSIVE apply_fragments_from(_, _, _, _)
apply_fragments_from(st, img, hunks, k) ==
    IF k > Len(hunks)
    THEN [ok |-> TRUE, text |-> GitText(ImageLines(img)), at |-> 0, st |-> st]
    ELSE With(apply_one_fragment(st, img, hunks[k]), LAMBDA r :
         IF ~r.ok THEN [ok |-> FALSE, text |-> "", at |-> hunks[k].oldpos, st |-> r.st]
         ELSE apply_fragments_from(r.st, r.img, hunks, k + 1))

\* The hunks of a patch on a content: the new content, or the old position
\* of the hunk that found no place.
apply_fragments(st, content, hunks) ==
    apply_fragments_from(st, Unpatched(GitLines(content)), hunks, 1)

\* The merge of ours and theirs over base: <<content, conflict>>
three_way_merge(base, ours, theirs) ==
    IF base = ours THEN <<theirs, FALSE>>
    ELSE IF base = theirs \/ ours = theirs THEN <<ours, FALSE>>
    ELSE <<"<<<<<<< ours\n" \o ours \o "=======\n" \o theirs \o ">>>>>>> theirs\n", TRUE>>

\* A result to write: <<old name, new name, content, stages>>, the stages
\* <<base, ours, theirs>> of a merge with conflicts and else <<>>.
\* The result that an earlier patch of the same input left for a path
PendingOf(writes, path) ==
    IF \E k \in 1..Len(writes) : writes[k][2] = path
    THEN Some(writes[CHOOSE k \in 1..Len(writes) :
                         writes[k][2] = path /\ \A j \in (k + 1)..Len(writes) : writes[j][2] # path][3])
    ELSE None

PatchFails(st, msg) == [st EXCEPT !.err = st.err \o msg, !.failed = TRUE]

\* The patch on the content cur, without a merge
direct_application(st, pt, cur) ==
    With(apply_fragments(st, cur, pt.hunks), LAMBDA r :
    IF ~r.ok
    THEN PatchFails(r.st, "error: patch failed: " \o pt.old \o ":" \o IntToStr(r.at) \o "\n"
                          \o "error: " \o pt.old \o ": patch does not apply\n")
    ELSE [r.st EXCEPT !.writes = Append(@, <<pt.old, pt.new, r.text, <<>>>>)])

\* The patch by a three-way merge: the blob that the "index " line names is
\* the base, the patch on it is theirs, cur is ours; theirs and ours are
\* written to the object store before the merge.
try_threeway(st, pt, cur) ==
    With(IF pt.index = None \/ Find(pt.index[1], "..") < 0 THEN None
         ELSE find_blob(st.repo.objects, Take(pt.index[1], Find(pt.index[1], ".."))),
         LAMBDA pre :
    IF pre = None
    THEN direct_application(
             [st EXCEPT !.err = @
                 \o "error: repository lacks the necessary blob to perform 3-way merge.\n"
                 \o "Falling back to direct application...\n"], pt, cur)
    ELSE With(apply_fragments(st, pre[1], pt.hunks), LAMBDA theirs :
         IF ~theirs.ok
         THEN direct_application(
                  [theirs.st EXCEPT !.err = @
                      \o "error: patch failed: " \o pt.old \o ":" \o IntToStr(theirs.at) \o "\n"
                      \o "Falling back to direct application...\n"], pt, cur)
         ELSE With(three_way_merge(pre[1], cur, theirs.text), LAMBDA m :
              [theirs.st EXCEPT !.repo.objects = @ \cup {theirs.text, cur},
                                !.err = @ \o "Applied patch to '" \o pt.new \o "' "
                                        \o (IF m[2] THEN "with conflicts" ELSE "cleanly") \o ".\n",
                                !.writes = Append(@, <<pt.old, pt.new, m[1],
                                                       IF m[2] THEN <<pre[1], cur, theirs.text>>
                                                       ELSE <<>>>>)])))

\* One patch of the input: the checks of its file, then the patch on what
\* the file holds, or on what an earlier patch of the input made of it.
apply_patch(st, pt, threeway) ==
    With(FileOf(st.repo, pt.old), LAMBDA f :
    With(PendingOf(st.writes, pt.old), LAMBDA previous :
    IF previous # None
    THEN (IF threeway THEN try_threeway(st, pt, previous[1])
          ELSE direct_application(st, pt, previous[1]))
    ELSE IF ~threeway
    THEN (IF f.work = None
          THEN PatchFails(st, "error: " \o pt.old \o ": No such file or directory\n")
          ELSE direct_application(st, pt, f.work[1]))
    ELSE IF Len(f.index) # 1
    THEN PatchFails(st, "error: " \o pt.old \o ": does not exist in index\n")
    ELSE IF f.work = None
    THEN try_threeway([st EXCEPT !.repo = SetFile(st.repo, [f EXCEPT !.work = Some(f.index[1]),
                                                                    !.uptodate = TRUE])],
                      pt, f.index[1])
    ELSE IF ~f.uptodate
    THEN PatchFails(st, "error: " \o pt.old \o ": does not match index\n")
    ELSE try_threeway(st, pt, f.work[1])))

RECURSIVE apply_patches(_, _, _, _)
apply_patches(st, patches, k, threeway) ==
    IF k > Len(patches) THEN st
    ELSE apply_patches(apply_patch(st, patches[k], threeway), patches, k + 1, threeway)

\* The files under the old names of the results are removed, from the
\* index too when git writes it
RECURSIVE remove_old(_, _, _, _)
remove_old(rep, writes, k, threeway) ==
    IF k > Len(writes) THEN rep
    ELSE With(FileOf(rep, writes[k][1]), LAMBDA f :
         remove_old(SetFile(rep, [f EXCEPT !.work = None,
                                          !.index = IF threeway THEN <<>> ELSE @,
                                          !.uptodate = FALSE]),
                    writes, k + 1, threeway))

\* The results are written under their new names, in the order of the
\* patches
RECURSIVE create_new(_, _, _, _)
create_new(rep, writes, k, threeway) ==
    IF k > Len(writes) THEN rep
    ELSE With(FileOf(rep, writes[k][2]), LAMBDA f :
         create_new(
             IF ~threeway
             THEN SetFile(rep, [f EXCEPT !.work = Some(writes[k][3]), !.uptodate = FALSE])
             ELSE IF writes[k][4] = <<>>
             THEN [SetFile(rep, [f EXCEPT !.work = Some(writes[k][3]),
                                           !.index = <<writes[k][3]>>,
                                           !.uptodate = TRUE])
                      EXCEPT !.objects = @ \cup {writes[k][3]}]
             ELSE SetFile(rep, [f EXCEPT !.work = Some(writes[k][3]),
                                          !.index = writes[k][4],
                                          !.uptodate = FALSE]),
             writes, k + 1, threeway))

\* The results written out: every old name is removed, then every new name
\* is written.
write_out_results(rep, writes, threeway) ==
    create_new(remove_old(rep, writes, 1, threeway), writes, 1, threeway)

\* "U <path>" for every patch that left conflicts, in path order
RECURSIVE unmerged_lines(_, _, _)
unmerged_lines(files, writes, k) ==
    IF k > Len(files) THEN ""
    ELSE Rep("U " \o files[k].path \o "\n",
             Cardinality({j \in 1..Len(writes) :
                              writes[j][2] = files[k].path /\ writes[j][4] # <<>>}))
         \o unmerged_lines(files, writes, k + 1)

\* What git says of the white space errors once the patches are applied
whitespace_warnings(st) ==
    (IF st.errors > squelch_whitespace_errors
     THEN "warning: squelched " \o IntToStr(st.errors - squelch_whitespace_errors)
          \o " whitespace error"
          \o (IF st.errors - squelch_whitespace_errors = 1 THEN "" ELSE "s") \o "\n"
     ELSE "")
    \o (IF st.errors = 0 THEN ""
        ELSE IF st.fixed > 0
        THEN "warning: " \o IntToStr(st.fixed)
             \o (IF st.fixed = 1 THEN " line" ELSE " lines")
             \o " applied after fixing whitespace errors.\n"
        ELSE "warning: " \o IntToStr(st.errors)
             \o (IF st.errors = 1 THEN " line adds" ELSE " lines add")
             \o " whitespace errors.\n")

\* The repository that a three-way apply leaves when a patch failed: the
\* index is not written, so the files it checked out are not the ones the
\* entries of the index were made from.
RECURSIVE index_not_written(_, _)
index_not_written(files, before) ==
    IF Len(files) = 0 THEN <<>>
    ELSE <<IF Head(before).work = None /\ Head(files).work # None
           THEN [Head(files) EXCEPT !.uptodate = FALSE]
           ELSE Head(files)>>
         \o index_not_written(Tail(files), Tail(before))

\* git apply [--3way] --whitespace=fix on the standard input patch in the
\* repository repo: returncode, stderr, and the repository afterwards.
\* Nothing is written when a patch fails; a file that a three-way apply
\* found missing from the working tree is checked out all the same, and
\* the blobs of the merges that it made stay in the object store.
git_apply(patch, rep, threeway) ==
    With(Patches(GitLines(patch), 1, 1, None, <<>>,
                 [err |-> "", errors |-> 0, fixed |-> 0]), LAMBDA parsed :
    IF parsed.fatal
    THEN [returncode |-> 128, stderr |-> parsed.msg, repo |-> rep, conflicts |-> FALSE]
    ELSE With(apply_patches([repo |-> rep, err |-> parsed.ws.err, errors |-> parsed.ws.errors,
                             fixed |-> 0, failed |-> FALSE, writes |-> <<>>],
                            parsed.patches, 1, threeway), LAMBDA st :
         IF st.failed
         THEN [returncode |-> 1, stderr |-> st.err,
               repo |-> [st.repo EXCEPT !.files = index_not_written(st.repo.files, rep.files)],
               conflicts |-> FALSE]
         ELSE With(write_out_results(st.repo, st.writes, threeway), LAMBDA written :
              With(unmerged_lines(written.files, st.writes, 1), LAMBDA unmerged :
              [returncode |-> IF unmerged = "" THEN 0 ELSE 1,
               stderr |-> st.err \o unmerged \o whitespace_warnings(st),
               repo |-> written,
               conflicts |-> unmerged # ""]))))

\* No repository: the function under check runs without one.
NoRepository == [files |-> <<>>, objects |-> {}]

\* README.md and src/a.py ("x") committed, with the denied file Dockerfile.
CleanRepo ==
    [files |-> <<File("Dockerfile", Some("a\n"), <<"a\n">>),
                 File("README.md", Some("r\n"), <<"r\n">>),
                 File("src/a.py", Some("x\n"), <<"x\n">>)>>,
     objects |-> {"a\n", "r\n", "x\n"}]
\* src/a.py went from "x" to "y" in a later commit.
MovedRepo ==
    [files |-> <<File("README.md", Some("r\n"), <<"r\n">>),
                 File("src/a.py", Some("y\n"), <<"y\n">>)>>,
     objects |-> {"r\n", "x\n", "y\n"}]
\* src/a.py went from "x" to "z" in a later commit.
DivergedRepo ==
    [files |-> <<File("README.md", Some("r\n"), <<"r\n">>),
                 File("src/a.py", Some("z\n"), <<"z\n">>)>>,
     objects |-> {"r\n", "x\n", "z\n"}]
\* src/a.py is committed as "x" and holds "z" in the working tree.
DirtyRepo ==
    [files |-> <<File("README.md", Some("r\n"), <<"r\n">>),
                 File("src/a.py", Some("z\n"), <<"x\n">>)>>,
     objects |-> {"r\n", "x\n"}]
\* src/a.py is committed as "x" and deleted from the working tree.
DeletedRepo ==
    [files |-> <<File("README.md", Some("r\n"), <<"r\n">>),
                 File("src/a.py", None, <<"x\n">>)>>,
     objects |-> {"r\n", "x\n"}]

\* README.md committed and nothing else: no src/a.py in the index or in
\* the working tree.
FreshRepo ==
    [files |-> <<File("README.md", Some("r\n"), <<"r\n">>)>>,
     objects |-> {"r\n"}]

\* README.md committed, no src/a.py, and an empty file dev/null in the
\* working tree that the index does not know.
NullFileRepo ==
    [files |-> <<File("README.md", Some("r\n"), <<"r\n">>),
                 File("dev/null", Some(""), <<>>)>>,
     objects |-> {"r\n"}]

Repositories ==
    {CleanRepo, MovedRepo, DivergedRepo, DirtyRepo, DeletedRepo, FreshRepo, NullFileRepo}

\* git ls-files: the paths of the index, an unmerged path once per stage
RECURSIVE ls_files(_, _)
ls_files(files, k) ==
    IF k > Len(files) THEN <<>>
    ELSE (IF Len(files[k].index) = 0 THEN <<>>
          ELSE IF Len(files[k].index) = 1 THEN <<files[k].path>>
          ELSE <<files[k].path, files[k].path, files[k].path>>)
         \o ls_files(files, k + 1)

RECURSIVE SelectPaths(_, _)
SelectPaths(paths, preferred) ==
    IF Len(paths) = 0 THEN <<>>
    ELSE (IF (\E pre \in {"src/", "tests/", "agents/"} : StartsWith(Head(paths), pre)) = preferred
          THEN <<Head(paths)>> ELSE <<>>)
         \o SelectPaths(Tail(paths), preferred)

RECURSIVE NotBuild(_)
NotBuild(paths) ==
    IF Len(paths) = 0 THEN <<>>
    ELSE (IF StartsWith(Head(paths), "build/") THEN <<>> ELSE <<Head(paths)>>)
         \o NotBuild(Tail(paths))

MAX_FILES == 120

\* Lines 150-165
repo_file_tree(rep) ==
    With(NotBuild(ls_files(rep.files, 1)), LAMBDA files :
    With(SelectPaths(files, TRUE) \o SelectPaths(files, FALSE), LAMBDA ordered :
    Join(SubSeq(ordered, 1, IF Len(ordered) > MAX_FILES THEN MAX_FILES ELSE Len(ordered)), "\n")))

-----------------------------------------------------------------------------
(* attempt_llm_patch (lines 559-683) and apply_unified_diff (517-542)      *)

\* One entry of calls: the callee, what it was given, what it gave back.
Call(fn, input, output) == [fn |-> fn, input |-> input, output |-> output]

\* The Python frames in use in attempt_llm_patch when the script runs:
\* <module> (line 823), main (line 816 or 819), handle_issue_mode (line
\* 705) or handle_pr_iteration_mode (line 770), attempt_llm_patch.
AttemptFrames == 4
GenerateFrames == AttemptFrames + 1
ExtractFrames == AttemptFrames + 2

\* Lines 586-593 on the answer of llm_chat: (patch_text, llm_mode, raw_text);
\* frames is the number of Python frames in use, the one of
\* llm_generate_patch included.
llm_generate_patch(resp, frames) ==
    With(resp[1], LAMBDA raw :
    With(extract_patch_from_llm(raw, frames + 1), LAMBDA extracted :
    With(sanitize_llm_patch(extracted[1]), LAMBDA patch :
    IF patch = "" \/ ~Contains(patch, "diff --git")
    THEN <<"", resp[2], raw>>
    ELSE <<patch, resp[2], raw>>)))

\* Lines 599, 615 and 656: llm_generate_patch as attempt_llm_patch calls it,
\* on each answer that llm_chat may give
Generated == [resp \in Responses |-> llm_generate_patch(resp, GenerateFrames)]

\* A buggy variant: the diagnostic of the strict attempt is dropped.
apply_error_fuzzy_only(err1, err2) ==
    Strip("git apply failed:\n3way failed:\n" \o Strip(err2))

\* Lines 538-542: str() of the RuntimeError
apply_error(err1, err2) ==
    Strip("git apply failed:\n" \o Strip(err1) \o "\n---\n3way failed:\n" \o Strip(err2))

ctl == <<issue_title, issue_body, ai_review, policy>>
pure == <<arg, ret, op>>

Init ==
    /\ policy = DefaultPolicy
    /\ issue_title \in Titles
    /\ issue_body \in Bodies
    /\ ai_review \in Reviews
    /\ pc = "main"
    /\ diff_text = "" /\ llm_mode = "" /\ raw_used = ""
    /\ e = None
    /\ diff3 = "" /\ llm_mode3 = "" /\ raw3 = ""
    /\ phase = "main"
    /\ canon_text = ""
    /\ p = None
    /\ result = None
    /\ calls = <<>>
    /\ tree = <<>>
    /\ repo \in Repositories
    /\ arg = "" /\ ret = None /\ op = "none"

\* Where attempt_llm_patch is left by an exception that nothing catches:
\* sh raises CalledProcessError for git ls-files (lines 27 and 154, called at
\* line 596), llm_chat raises when LLM_CONFIG_JSON cannot be loaded (line 586).
RAISED == {"raise: repo_file_tree", "raise: llm_chat"}

\* Lines 595-600: 1) main attempt
MainAttempt ==
    /\ pc = "main"
    /\ \/ \E resp \in Responses :
            LET prompt == json_patch_prompt(
                              build_code_prompt(issue_title, issue_body, ai_review,
                                                repo_file_tree(repo)))
            IN  \E g \in {Generated[resp]} :
                /\ calls' = Append(calls, Call("llm_chat", prompt, resp))
                /\ diff_text' = g[1]
                /\ llm_mode' = g[2]
                /\ raw_used' = g[3]
                /\ pc' = IF g[1] = "" THEN "retry" ELSE "forbid"
       \/ /\ pc' \in RAISED
          /\ UNCHANGED <<calls, diff_text, llm_mode, raw_used>>
    /\ UNCHANGED <<ctl, pure, e, diff3, llm_mode3, raw3, phase, canon_text, p, result, tree, repo>>

\* A buggy variant: raw_used keeps the raw text of the first answer.
RetryIfEmpty_stale_raw ==
    /\ pc = "retry"
    /\ diff_text = ""
    /\ \E resp \in Responses :
         LET prompt == json_patch_prompt(retry_core(issue_title, issue_body, ai_review))
         IN  \E g \in {Generated[resp]} :
             /\ calls' = Append(calls, Call("llm_chat", prompt, resp))
             /\ diff_text' = g[1]
             /\ llm_mode' = g[2]
             /\ raw_used' = raw_used
             /\ IF g[1] = ""
                THEN /\ result' = <<FALSE, g[2],
                                    "no unified diff produced (sanity check failed)",
                                    _preview(raw_used, LLM_PREVIEW_CHARS)>>
                     /\ pc' = "done"
                ELSE /\ result' = result
                     /\ pc' = "forbid"
    /\ UNCHANGED <<ctl, pure, e, diff3, llm_mode3, raw3, phase, canon_text, p, tree, repo>>

\* Lines 602-625: 2) retry if empty, and the return when it is empty again
RetryIfEmpty ==
    /\ pc = "retry"
    /\ diff_text = ""
    /\ \E resp \in Responses :
         LET prompt == json_patch_prompt(retry_core(issue_title, issue_body, ai_review))
         IN  \E g \in {Generated[resp]} :
             /\ calls' = Append(calls, Call("llm_chat", prompt, resp))
             /\ diff_text' = g[1]
             /\ llm_mode' = g[2]
             /\ raw_used' = g[3]
             /\ IF g[1] = ""
                THEN /\ result' = <<FALSE, g[2],
                                    "no unified diff produced (sanity check failed)",
                                    _preview(g[3], LLM_PREVIEW_CHARS)>>
                     /\ pc' = "done"
                ELSE /\ result' = result
                     /\ pc' = "forbid"
    /\ UNCHANGED <<ctl, pure, e, diff3, llm_mode3, raw3, phase, canon_text, p, tree, repo>>

\* A buggy variant: the reason is logged and the patch goes on to git apply.
ForbidCheck_warn_only ==
    /\ pc = "forbid"
    /\ \E reason \in {diff_touches_forbidden(diff_text)} :
           calls' = Append(calls, Call("diff_touches_forbidden", diff_text, reason))
    /\ pc' = "strict"
    /\ phase' = "main"
    /\ UNCHANGED <<ctl, pure, diff_text, llm_mode, raw_used, e, diff3, llm_mode3, raw3,
                   canon_text, p, tree, repo, result>>

\* Lines 627-630: 3) forbid checks
ForbidCheck ==
    /\ pc = "forbid"
    /\ \E reason \in {diff_touches_forbidden(diff_text)} :
           /\ calls' = Append(calls, Call("diff_touches_forbidden", diff_text, reason))
           /\ IF reason # None
              THEN /\ result' = <<FALSE, llm_mode, "patch rejected: " \o reason[1],
                                  _preview(raw_used, LLM_PREVIEW_CHARS)>>
                   /\ pc' = "done"
              ELSE /\ result' = result
                   /\ pc' = "strict"
    /\ phase' = "main"
    /\ UNCHANGED <<ctl, pure, diff_text, llm_mode, raw_used, e, diff3, llm_mode3, raw3,
                   canon_text, p, tree, repo>>

\* Lines 635 and 676: apply_unified_diff returned, the patch is applied.
Applied ==
    IF phase = "main"
    THEN <<TRUE, llm_mode, "patch applied", _preview(raw_used, LLM_PREVIEW_CHARS)>>
    ELSE <<TRUE, llm_mode3, "patch applied (repair retry)",
           _preview(raw3, LLM_PREVIEW_CHARS)>>

\* Line 520 when the text holds a surrogate: subprocess.run (text=True)
\* encodes its input as UTF-8 and raises UnicodeEncodeError; git has read
\* nothing.  This is str() of the exception.
SurrogateRepr(c) == IF c = HS THEN "\\ud800" ELSE "\\udc00"
HasSurrogate(text) == \E k \in 1..Len(text) : IsSurrogate(Ch(text, k))
encode_error(text) ==
    With(FirstOf(text, {HS, LS}), LAMBDA k :
    With(CHOOSE m \in k..Len(text) :
             /\ \A j \in k..m : IsSurrogate(Ch(text, j))
             /\ ~IsSurrogate(Ch(text, m + 1)), LAMBDA m :
    IF m = k
    THEN "'utf-8' codec can't encode character '" \o SurrogateRepr(Ch(text, k))
         \o "' in position " \o IntToStr(k - 1) \o ": surrogates not allowed"
    ELSE "'utf-8' codec can't encode characters in position " \o IntToStr(k - 1)
         \o "-" \o IntToStr(m - 1) \o ": surrogates not allowed"))

\* What a git apply that exited with a failure left in the log of effects
Leftover(out, text) ==
    IF out.conflicts THEN <<<<"conflict", text>>>>
    ELSE IF out.repo.files # repo.files THEN <<<<"checkout", text>>>>
    ELSE <<>>

\* A buggy variant: a patch that applied is applied once more before the return.
ApplyStrict_reapplies ==
    /\ pc = "strict"
    /\ \E given \in {IF phase = "main" THEN diff_text ELSE diff3} :
         \E canon \in {canonicalize_llm_patch(given)} :
         /\ ~HasSurrogate(canon)
         /\ \E out \in {git_apply(canon, repo, FALSE)} :
            \E again \in {git_apply(canon, out.repo, FALSE)} :
             /\ canon_text' = canon
             /\ p' = <<out.returncode, out.stderr>>
             /\ IF out.returncode = 0
                THEN /\ calls' = calls \o <<Call("canonicalize_llm_patch", given, <<canon>>),
                                            Call("git apply", canon, <<out.returncode, out.stderr>>),
                                            Call("git apply", canon,
                                                 <<again.returncode, again.stderr>>)>>
                     /\ tree' = tree \o <<<<"applied", canon>>, <<"applied", canon>>>>
                     /\ repo' = again.repo
                     /\ result' = Applied
                     /\ pc' = "done"
                ELSE /\ calls' = calls \o <<Call("canonicalize_llm_patch", given, <<canon>>),
                                            Call("git apply", canon, <<out.returncode, out.stderr>>)>>
                     /\ tree' = tree
                     /\ repo' = out.repo
                     /\ result' = result
                     /\ pc' = "fuzzy"
    /\ UNCHANGED <<ctl, pure, diff_text, llm_mode, raw_used, e, diff3, llm_mode3, raw3,
                   phase>>

\* A buggy variant: the three-way apply follows whatever the strict one did.
ApplyStrict_always_fuzzy ==
    /\ pc = "strict"
    /\ \E given \in {IF phase = "main" THEN diff_text ELSE diff3} :
         \E canon \in {canonicalize_llm_patch(given)} :
         /\ ~HasSurrogate(canon)
         /\ \E out \in {git_apply(canon, repo, FALSE)} :
             /\ canon_text' = canon
             /\ p' = <<out.returncode, out.stderr>>
             /\ calls' = calls \o <<Call("canonicalize_llm_patch", given, <<canon>>),
                                    Call("git apply", canon, <<out.returncode, out.stderr>>)>>
             /\ tree' = IF out.returncode = 0 THEN Append(tree, <<"applied", canon>>) ELSE tree
             /\ repo' = out.repo
             /\ pc' = "fuzzy"
    /\ UNCHANGED <<ctl, pure, diff_text, llm_mode, raw_used, e, diff3, llm_mode3, raw3,
                   phase, result>>

\* Lines 518-527: canonicalize, then the strict git apply.  A text that
\* cannot be encoded leaves line 520 with an exception, caught at line 637
\* (main patch) or at line 677 (repair patch).
ApplyStrict ==
    /\ pc = "strict"
    /\ \E given \in {IF phase = "main" THEN diff_text ELSE diff3} :
         \E canon \in {canonicalize_llm_patch(given)} :
         /\ canon_text' = canon
         /\ IF HasSurrogate(canon)
            THEN /\ p' = None
                 /\ calls' = Append(calls, Call("canonicalize_llm_patch", given, <<canon>>))
                 /\ UNCHANGED <<tree, repo>>
                 /\ IF phase = "main"
                    THEN /\ e' = Some(encode_error(canon))
                         /\ result' = result
                         /\ pc' = "repair"
                    ELSE /\ e' = e
                         /\ result' = <<FALSE, llm_mode3,
                                        "failed to apply patch after repair retry: "
                                            \o encode_error(canon),
                                        _preview(raw3, LLM_PREVIEW_CHARS)>>
                         /\ pc' = "done"
            ELSE \E out \in {git_apply(canon, repo, FALSE)} :
                 /\ p' = <<out.returncode, out.stderr>>
                 /\ calls' = calls \o <<Call("canonicalize_llm_patch", given, <<canon>>),
                                        Call("git apply", canon, <<out.returncode, out.stderr>>)>>
                 /\ repo' = out.repo
                 /\ e' = e
                 /\ IF out.returncode = 0
                    THEN /\ tree' = Append(tree, <<"applied", canon>>)
                         /\ result' = Applied
                         /\ pc' = "done"
                    ELSE /\ tree' = tree
                         /\ result' = result
                         /\ pc' = "fuzzy"
    /\ UNCHANGED <<ctl, pure, diff_text, llm_mode, raw_used, diff3, llm_mode3, raw3,
                   phase>>

\* A buggy variant: a repair patch that does not apply is repaired again.
ApplyFuzzy_repair_again ==
    /\ pc = "fuzzy"
    /\ \E out \in {git_apply(canon_text, repo, TRUE)} :
         \E err \in {apply_error(p[2], out.stderr)} :
             /\ calls' = Append(calls, Call("git apply --3way", canon_text,
                                            <<out.returncode, out.stderr>>))
             /\ repo' = out.repo
             /\ IF out.returncode = 0
                THEN /\ tree' = Append(tree, <<"applied", canon_text>>)
                     /\ result' = Applied
                     /\ pc' = "done"
                     /\ e' = e
                ELSE /\ tree' = tree \o Leftover(out, canon_text)
                     /\ e' = Some(err)
                     /\ result' = result
                     /\ pc' = "repair"
    /\ UNCHANGED <<ctl, pure, diff_text, llm_mode, raw_used, diff3, llm_mode3, raw3,
                   phase, canon_text, p>>

\* Lines 529-542: the three-way git apply; when it fails too, RuntimeError,
\* caught at line 637 (main patch) or at line 677 (repair patch).
ApplyFuzzy ==
    /\ pc = "fuzzy"
    /\ \E out \in {git_apply(canon_text, repo, TRUE)} :
         \E err \in {apply_error(p[2], out.stderr)} :
             /\ calls' = Append(calls, Call("git apply --3way", canon_text,
                                            <<out.returncode, out.stderr>>))
             /\ repo' = out.repo
             /\ IF out.returncode = 0
                THEN /\ tree' = Append(tree, <<"applied", canon_text>>)
                     /\ result' = Applied
                     /\ pc' = "done"
                     /\ e' = e
                ELSE /\ tree' = tree \o Leftover(out, canon_text)
                     /\ IF phase = "main"
                        THEN /\ e' = Some(err)
                             /\ result' = result
                             /\ pc' = "repair"
                        ELSE /\ e' = e
                             /\ result' = <<FALSE, llm_mode3,
                                            "failed to apply patch after repair retry: "
                                                \o err,
                                            _preview(raw3, LLM_PREVIEW_CHARS)>>
                             /\ pc' = "done"
    /\ UNCHANGED <<ctl, pure, diff_text, llm_mode, raw_used, diff3, llm_mode3, raw3,
                   phase, canon_text, p>>

\* A buggy variant: the repair patch is appended to the patch that failed.
RepairRetry_patches_previous ==
    /\ pc = "repair"
    /\ \E resp \in Responses :
         LET prompt == json_patch_prompt(repair_core(issue_title, issue_body, ai_review))
         IN  \E g \in {Generated[resp]} :
             /\ calls' = Append(calls, Call("llm_chat", prompt, resp))
             /\ diff3' = IF g[1] = "" THEN "" ELSE diff_text \o g[1]
             /\ llm_mode3' = g[2]
             /\ raw3' = g[3]
             /\ IF g[1] = ""
                THEN /\ result' = <<FALSE, g[2],
                                    "failed to apply patch; repair retry produced no diff. "
                                        \o "original error: " \o e[1],
                                    _preview(g[3], LLM_PREVIEW_CHARS)>>
                     /\ pc' = "done"
                ELSE /\ result' = result
                     /\ pc' = "repair_forbid"
    /\ UNCHANGED <<ctl, pure, diff_text, llm_mode, raw_used, e, phase, canon_text, p, tree, repo>>

\* Lines 637-663: 5) repair retry, and the return when it gives no diff
RepairRetry ==
    /\ pc = "repair"
    /\ \E resp \in Responses :
         LET prompt == json_patch_prompt(repair_core(issue_title, issue_body, ai_review))
         IN  \E g \in {Generated[resp]} :
             /\ calls' = Append(calls, Call("llm_chat", prompt, resp))
             /\ diff3' = g[1]
             /\ llm_mode3' = g[2]
             /\ raw3' = g[3]
             /\ IF g[1] = ""
                THEN /\ result' = <<FALSE, g[2],
                                    "failed to apply patch; repair retry produced no diff. "
                                        \o "original error: " \o e[1],
                                    _preview(g[3], LLM_PREVIEW_CHARS)>>
                     /\ pc' = "done"
                ELSE /\ result' = result
                     /\ pc' = "repair_forbid"
    /\ UNCHANGED <<ctl, pure, diff_text, llm_mode, raw_used, e, phase, canon_text, p, tree, repo>>

\* A buggy variant: the repair patch goes to git apply without a policy check.
RepairForbidCheck_unchecked ==
    /\ pc = "repair_forbid"
    /\ pc' = "strict"
    /\ phase' = "repair"
    /\ UNCHANGED <<ctl, pure, calls, result, diff_text, llm_mode, raw_used, e, diff3,
                   llm_mode3, raw3, canon_text, p, tree, repo>>

\* A buggy variant: the rejection of a repair patch is raised, not returned.
RepairForbidCheck_raises ==
    /\ pc = "repair_forbid"
    /\ \E reason2 \in {diff_touches_forbidden(diff3)} :
           /\ calls' = Append(calls, Call("diff_touches_forbidden", diff3, reason2))
           /\ IF reason2 # None
              THEN /\ result' = result
                   /\ pc' = "raise: diff_touches_forbidden"
              ELSE /\ result' = result
                   /\ pc' = "strict"
    /\ phase' = "repair"
    /\ UNCHANGED <<ctl, pure, diff_text, llm_mode, raw_used, e, diff3, llm_mode3, raw3,
                   canon_text, p, tree, repo>>

\* Lines 665-672: the forbid checks of the repair patch
RepairForbidCheck ==
    /\ pc = "repair_forbid"
    /\ \E reason2 \in {diff_touches_forbidden(diff3)} :
           /\ calls' = Append(calls, Call("diff_touches_forbidden", diff3, reason2))
           /\ IF reason2 # None
              THEN /\ result' = <<FALSE, llm_mode3, "repair patch rejected: " \o reason2[1],
                                  _preview(raw3, LLM_PREVIEW_CHARS)>>
                   /\ pc' = "done"
              ELSE /\ result' = result
                   /\ pc' = "strict"
    /\ phase' = "repair"
    /\ UNCHANGED <<ctl, pure, diff_text, llm_mode, raw_used, e, diff3, llm_mode3, raw3,
                   canon_text, p, tree, repo>>

Next ==
    \/ MainAttempt
    \/ RetryIfEmpty
    \/ ForbidCheck
    \/ ApplyStrict
    \/ ApplyFuzzy
    \/ RepairRetry
    \/ RepairForbidCheck

Spec == Init /\ [][Next]_vars

-----------------------------------------------------------------------------
(* diff_touches_forbidden on its own, under more than one policy            *)

\* A configuration in which allow and deny rules overlap in the four ways
\* an exact name and a prefix can: the module globals (lines 17-20) are
\* plain tuples and nothing keeps them disjoint.
OverlapPolicy ==
    [ALLOWED_PATH_PREFIXES |-> <<"src/">>,
     ALLOWED_EXACT         |-> <<"README.md", "pyproject.toml", ".github/workflows/ci.yml">>,
     DENY_PATH_PREFIXES    |-> <<".github/workflows/", "src/private/">>,
     DENY_EXACT            |-> <<"pyproject.toml", "src/secret.key">>]

Policies == {DefaultPolicy, OverlapPolicy}

\* Lines a diff may hold: markers with the roots a/ and b/, the sentinels,
\* markers with other roots or other spacing, and lines that are no marker.
PolicyLines ==
    {"--- a/src/a.py", "+++ b/src/a.py", "--- /dev/null", "+++ /dev/null",
     "+++ b/README.md", "+++ b/Dockerfile", "--- a/.github/workflows/ci.yml",
     "+++ b/config/secrets.yaml", "+++ b/pyproject.toml", "+++ b/src/secret.key",
     "--- a/src/private/k.py", "--- a/dev/null",
     "--- i/Dockerfile", "+++ w/Dockerfile", "+++  b/Dockerfile",
     "@@ -1 +1 @@"}

\* The longest diff text, in lines.
MaxLines == 2

\* Texts whose lines end at a line boundary other than "\n", and a marker
\* that ends in white space outside ASCII
BoundaryTexts ==
    {"+++ b/src/a.py" \o NEL \o "+++ b/Dockerfile",
     "+++ b/src/a.py" \o FS \o "--- a/pyproject.toml" \o "\n",
     "x" \o VT \o "+++ b/Dockerfile",
     "--- a/src/a.py" \o US \o "+++ b/Dockerfile",
     "+++ b/README.md" \o NBSP}

PolicyTexts ==
    {Join(ls, "\n") : ls \in UNION {[1..n -> PolicyLines] : n \in 0..MaxLines}}
    \cup BoundaryTexts

\* No run of attempt_llm_patch is under way.
Idle ==
    /\ issue_title = "" /\ issue_body = "" /\ ai_review = ""
    /\ pc = "idle"
    /\ diff_text = "" /\ llm_mode = "" /\ raw_used = ""
    /\ e = None
    /\ diff3 = "" /\ llm_mode3 = "" /\ raw3 = ""
    /\ phase = "main"
    /\ canon_text = ""
    /\ p = None
    /\ result = None
    /\ calls = <<>>
    /\ tree = <<>>
    /\ repo = NoRepository

run == <<issue_title, issue_body, ai_review, pc, diff_text, llm_mode, raw_used, e,
         diff3, llm_mode3, raw3, phase, canon_text, p, result, calls, tree, repo>>

InitPolicy ==
    /\ Idle
    /\ policy \in Policies
    /\ arg \in PolicyTexts
    /\ ret = None
    /\ op = "none"

\* reason = diff_touches_forbidden(diff_text)
CallDiffTouchesForbidden ==
    /\ op = "none"
    /\ ret' = diff_touches_forbidden(arg)
    /\ op' = "diff_touches_forbidden"
    /\ UNCHANGED <<run, policy, arg>>

NextPolicy == CallDiffTouchesForbidden

SpecPolicy == InitPolicy /\ [][NextPolicy]_vars

-----------------------------------------------------------------------------
(* The path policy: C1, C2                                                  *)

LinesOf(text) == SplitLines(text)

\* policy names the path in a deny rule
Denied(path) ==
    InTuple(path, policy.DENY_EXACT) \/ AnyPrefix(path, policy.DENY_PATH_PREFIXES)

\* The path an old-file or new-file marker names, whatever its root prefix
\* and the spacing after the marker: the text after "--- " or "+++ " without
\* its leading blanks and without its first component (the root, which git
\* apply strips); None for other lines and for the /dev/null sentinel.
NamedPath(line) ==
    IF ~(StartsWith(line, "--- ") \/ StartsWith(line, "+++ "))
    THEN None
    ELSE LET name == LStrip(From(line, 4))
             cut  == Find(name, "/")
         IN  IF name = "" \/ name = "/dev/null"
             THEN None
             ELSE IF cut = -1 THEN Some(name) ELSE Some(From(name, cut + 1))

\* The policy does not let a diff touch path.
Offending(path) == Denied(path) \/ ~_path_is_allowed(path)

\* C1: whenever some line beginning with "--- " or "+++ " names a path, other
\* than the /dev/null sentinel, that is deny-listed or not on the allow list,
\* diff_touches_forbidden returns a reason and not None, whatever the root
\* prefix and the spacing of the marker.
C1_EveryMarkerIsChecked ==
    op = "diff_touches_forbidden" =>
        ((\E i \in 1..Len(LinesOf(arg)) :
              /\ NamedPath(LinesOf(arg)[i]) # None
              /\ Offending(NamedPath(LinesOf(arg)[i])[1]))
         => ret # None)

\* The first i - 1 lines hold no path the check rejects.
CleanBefore(lines, i) ==
    \A j \in 1..(i - 1) :
        marker_path(lines[j]) = None \/ ~Offending(marker_path(lines[j])[1])

\* C2: deny rules take precedence over allow rules.  Whenever a path the check
\* reads from a marker matches a deny-listed exact name or prefix, the diff is
\* rejected, also when the path matches an allow-listed exact name or prefix
\* as well; when no line before it is rejected, the reason given is that this
\* path is forbidden.
C2_DenyPrecedence ==
    op = "diff_touches_forbidden" =>
        \A i \in 1..Len(LinesOf(arg)) :
            LET mp == marker_path(LinesOf(arg)[i])
            IN  (mp # None /\ Denied(mp[1])) =>
                    /\ ret # None
                    /\ CleanBefore(LinesOf(arg), i) =>
                           ret \in {Some("attempted to modify forbidden file: " \o mp[1]),
                                    Some("attempted to modify forbidden path: " \o mp[1])}

\* A diff with a path that is deny-listed and allow-listed was rejected.
C2_Witness ==
    /\ op = "diff_touches_forbidden"
    /\ ret # None
    /\ \E i \in 1..Len(LinesOf(arg)) :
           LET mp == marker_path(LinesOf(arg)[i])
           IN  /\ mp # None
               /\ Denied(mp[1])
               /\ _path_is_allowed(mp[1])
               /\ ret = Some("attempted to modify forbidden file: " \o mp[1])

-----------------------------------------------------------------------------
(* The controller: what calls and result tell                               *)

\* The positions of the generation requests in calls
Gens == {k \in 1..Len(calls) : calls[k].fn = "llm_chat"}

NumGenerations == Cardinality(Gens)

LastGen == CHOOSE k \in Gens : \A j \in Gens : j <= k

\* The k-th call is a generation request whose answer holds no diff.
NoDiffAt(k) ==
    /\ calls[k].fn = "llm_chat"
    /\ Generated[calls[k].output][1] = ""

\* The k-th call is a policy check that rejects.
RejectedAt(k) ==
    /\ calls[k].fn = "diff_touches_forbidden"
    /\ calls[k].output # None

\* The k-th call is a three-way apply that fails (the strict one failed before).
ApplyFailedAt(k) ==
    /\ calls[k].fn = "git apply --3way"
    /\ calls[k].output[1] # 0

\* The k-th call is a canonicalize whose text no git apply followed: the
\* text could not be encoded for git.
EncodeFailedAt(k) ==
    /\ calls[k].fn = "canonicalize_llm_patch"
    /\ HasSurrogate(calls[k].output[1])

\* The error text of the apply failure that ends at call k
ApplyErrorAt(k) ==
    IF EncodeFailedAt(k)
    THEN encode_error(calls[k].output[1])
    ELSE apply_error(calls[k - 1].output[2], calls[k].output[2])

\* The attempt made last has failed.
LastAttemptFailed ==
    /\ Len(calls) > 0
    /\ \/ NoDiffAt(Len(calls))
       \/ RejectedAt(Len(calls))
       \/ ApplyFailedAt(Len(calls))
       \/ EncodeFailedAt(Len(calls))

Returned == pc = "done" /\ result # None

Failed == Returned /\ result[1] = FALSE

\* C3: no partial policy acceptance.  When the policy check rejects a diff,
\* nothing is called after it: attempt_llm_patch returns applied = False with
\* the rejection message, the diff is never handed to apply_unified_diff (no
\* canonicalize, no git apply for it), and every effect on the working tree
\* comes from a git apply of another, accepted, diff.
C3_NoPartialAcceptance ==
    \A k \in 1..Len(calls) :
        RejectedAt(k) =>
            /\ k = Len(calls)
            /\ Failed
            /\ EndsWith(result[3], "patch rejected: " \o calls[k].output[1])
            /\ \A j \in 1..Len(calls) :
                   calls[j].fn = "canonicalize_llm_patch" => calls[j].input # calls[k].input
            /\ \A t \in 1..Len(tree) :
                   \E j \in 1..(k - 1) :
                       /\ calls[j].fn = "canonicalize_llm_patch"
                       /\ calls[j].input # calls[k].input
                       /\ calls[j].output = <<tree[t][2]>>

\* A diff with an allowed and a denied path was rejected and the run is over.
C3_Witness ==
    /\ Failed
    /\ RejectedAt(Len(calls))
    /\ Contains(calls[Len(calls)].input, "+++ b/src/a.py")
    /\ Contains(calls[Len(calls)].input, "+++ b/Dockerfile")
    /\ \A t \in 1..Len(tree) : tree[t][1] # "applied"

\* A line the canonicalizer would rewrite to a sentinel
NearMissSentinel(line) ==
    \/ (StartsWith(line, "--- ") /\ sub_dev_null(RStrip(line), "---", "a/") # RStrip(line))
    \/ (StartsWith(line, "+++ ") /\ sub_dev_null(RStrip(line), "+++", "b/") # RStrip(line))

\* C4: in every pass the canonicalizer runs before the policy check: the text
\* the policy check is given is the output of an earlier canonicalize call, and
\* it holds no near-miss spelling of the /dev/null sentinel.
C4_CanonicalBeforePolicy ==
    \A k \in 1..Len(calls) :
        calls[k].fn = "diff_touches_forbidden" =>
            /\ \E j \in 1..(k - 1) :
                   /\ calls[j].fn = "canonicalize_llm_patch"
                   /\ calls[j].output = <<calls[k].input>>
            /\ \A i \in 1..Len(LinesOf(calls[k].input)) :
                   ~NearMissSentinel(LinesOf(calls[k].input)[i])

\* C5: bounded retries.  No run issues more than 3 generation requests; once
\* the third attempt has failed the run is over with a failure result, and a
\* run that is over takes no further step.
C5_BoundedRetries ==
    /\ NumGenerations <= 3
    /\ (NumGenerations = 3 /\ LastAttemptFailed) => Failed
    /\ pc = "done" => ~ENABLED Next

\* Three generation requests were made and the run ended in failure.
C5_Witness == NumGenerations = 3 /\ Failed /\ LastAttemptFailed

\* C6: whenever an attempt fails at any stage and fewer than 3 generation
\* requests have been made, a new request follows: a failure is final only
\* when the bound of 3 generation attempts is reached.
C6_RetryUntilBound == Failed => NumGenerations = 3

\* A policy rejection ended the run after a single generation request.
C6_Witness == Failed /\ NumGenerations = 1 /\ RejectedAt(Len(calls))

\* C7: every retry or repair request carries the failure reason of the attempt
\* before it in its prompt: the apply error text after an apply failure, the
\* no-diff reason after an answer without a diff.
C7_PromptCarriesReason ==
    \A k \in Gens :
        k > 1 =>
            IF ApplyFailedAt(k - 1) \/ EncodeFailedAt(k - 1)
            THEN Contains(calls[k].input, ApplyErrorAt(k - 1))
            ELSE Contains(calls[k].input, "no unified diff produced")

\* C8: a failure result reports the last attempt: its preview and mode are
\* those of the answer to the last generation request, its message is the
\* failure of the call made last.
C8_FailureReportsLastAttempt ==
    Failed =>
        LET n == Len(calls)
        IN  /\ result[4] = _preview(calls[LastGen].output[1], LLM_PREVIEW_CHARS)
            /\ result[2] = calls[LastGen].output[2]
            /\ IF calls[n].fn = "llm_chat"
               THEN IF calls[n - 1].fn = "llm_chat"
                    THEN result[3] = "no unified diff produced (sanity check failed)"
                    ELSE result[3] = "failed to apply patch; repair retry produced no diff. "
                                         \o "original error: " \o ApplyErrorAt(n - 1)
               ELSE IF calls[n].fn = "diff_touches_forbidden"
               THEN result[3] \in {"patch rejected: " \o calls[n].output[1],
                                   "repair patch rejected: " \o calls[n].output[1]}
               ELSE /\ ApplyFailedAt(n) \/ EncodeFailedAt(n)
                    /\ result[3] = "failed to apply patch after repair retry: "
                                       \o ApplyErrorAt(n)

\* A run failed after more than one request, the answers differing.
C8_Witness ==
    /\ Failed
    /\ NumGenerations >= 2
    /\ _preview(calls[1].output[1], LLM_PREVIEW_CHARS)
           # _preview(calls[LastGen].output[1], LLM_PREVIEW_CHARS)
    /\ result[4] = _preview(calls[LastGen].output[1], LLM_PREVIEW_CHARS)

\* C9 as stated: the preview in a result is never longer than
\* LLM_PREVIEW_CHARS characters.
C9_PreviewWithinLimit == result # None => Len(result[4]) <= LLM_PREVIEW_CHARS

\* C9, amended: the preview in a result is never longer than
\* LLM_PREVIEW_CHARS + 3 characters: raw text that is longer than
\* LLM_PREVIEW_CHARS once stripped is cut to its first LLM_PREVIEW_CHARS
\* characters followed by "...", shorter text is kept whole.
C9_PreviewWithinLimitPlusEllipsis ==
    result # None =>
        LET raw == Strip(calls[LastGen].output[1])
        IN  /\ Len(result[4]) <= LLM_PREVIEW_CHARS + 3
            /\ Len(raw) <= LLM_PREVIEW_CHARS => result[4] = raw
            /\ Len(raw) > LLM_PREVIEW_CHARS =>
                   result[4] = Take(raw, LLM_PREVIEW_CHARS) \o "..."

\* A result carries a preview of a raw text longer than the limit.
C9_Witness ==
    /\ result # None
    /\ Len(Strip(calls[LastGen].output[1])) > LLM_PREVIEW_CHARS
    /\ Len(result[4]) = LLM_PREVIEW_CHARS + 3

\* C10: escalation order.  A three-way apply comes right after a strict apply
\* of the same text that exited non-zero; a strict apply that exited non-zero
\* is followed by the three-way apply (or that is the next step); nothing of
\* apply_unified_diff follows a strict apply that exited zero.
C10_EscalationOrder ==
    \A k \in 1..Len(calls) :
        /\ calls[k].fn = "git apply --3way" =>
               /\ k > 1
               /\ calls[k - 1].fn = "git apply"
               /\ calls[k - 1].output[1] # 0
               /\ calls[k - 1].input = calls[k].input
        /\ (calls[k].fn = "git apply" /\ calls[k].output[1] # 0) =>
               IF k = Len(calls)
               THEN pc = "fuzzy"
               ELSE calls[k + 1].fn = "git apply --3way"
        /\ (calls[k].fn = "git apply" /\ calls[k].output[1] = 0) =>
               /\ k = Len(calls)
               /\ Returned /\ result[1] = TRUE

\* Both orders happened in one run: a strict apply failed and the three-way
\* one followed, then a strict apply succeeded and ended the run.
C10_Witness ==
    /\ Returned
    /\ calls[Len(calls)].fn = "git apply"
    /\ calls[Len(calls)].output[1] = 0
    /\ \E k \in 2..Len(calls) : ApplyFailedAt(k) /\ calls[k - 1].fn = "git apply"

-----------------------------------------------------------------------------
(* The apply engine's outcome: C11, C12                                     *)

\* C11: when the strict and the three-way apply both exit non-zero, the error
\* raised holds the diagnostic of each, and the controller takes the attempt
\* as failed: after the first pass it keeps the error and goes on to the repair
\* request (the no-diff failure message of that request quotes it), after the
\* repair pass it returns applied = False with the error in the message.
C11_DoubleFailureCarriesBoth ==
    \A k \in 1..Len(calls) :
        ApplyFailedAt(k) =>
            LET strict == Strip(calls[k - 1].output[2])
                fuzzy  == Strip(calls[k].output[2])
                first  == \A j \in 1..(k - 3) : calls[j].fn # "canonicalize_llm_patch"
            IN  /\ calls[k - 1].fn = "git apply"
                /\ Contains(ApplyErrorAt(k), strict)
                /\ Contains(ApplyErrorAt(k), fuzzy)
                /\ first =>
                       /\ e = Some(ApplyErrorAt(k))
                       /\ Contains(e[1], strict) /\ Contains(e[1], fuzzy)
                       /\ IF k = Len(calls)
                          THEN pc = "repair" /\ result = None
                          ELSE /\ calls[k + 1].fn = "llm_chat"
                               /\ (NoDiffAt(k + 1) /\ k + 1 = Len(calls)) =>
                                      /\ Failed
                                      /\ Contains(result[3], strict)
                                      /\ Contains(result[3], fuzzy)
                /\ ~first =>
                       /\ k = Len(calls)
                       /\ Failed
                       /\ Contains(result[3], strict)
                       /\ Contains(result[3], fuzzy)

\* The repair patch failed both ways and the run returned the failure.
C11_Witness ==
    /\ Failed
    /\ ApplyFailedAt(Len(calls))
    /\ calls[Len(calls) - 1].output[2] # ""
    /\ calls[Len(calls)].output[2] # ""
    /\ \E j \in 1..(Len(calls) - 1) : ApplyFailedAt(j)

\* What the run returns when the strict apply of the pass under way exits 0.
StrictSuccessResult == Applied

\* C12: a success result tells which strategy applied the patch: the result
\* of a run whose patch went in through the three-way apply differs from the
\* result the same run returns when the strict apply succeeds.
C12_StrategyReported ==
    (/\ Returned
     /\ result[1] = TRUE
     /\ calls[Len(calls)].fn = "git apply --3way") => result # StrictSuccessResult

-----------------------------------------------------------------------------
(* sanitize_llm_patch on its own: C13, C14                                  *)

\* The language tags of the fence openers among SanitizeLines
FenceTags == {"diff", "python", "patch"}

\* Lines of a raw answer: prose, fences with and without a tag, a blank
\* line, and the lines of a diff.
SanitizeLines ==
    {"Here you go:", FENCE, "  ",
     "diff --git a/src/a.py b/src/a.py", "--- a/src/a.py", "+x"}
    \cup {FENCE \o tag : tag \in FenceTags}

\* The longest raw answer, in lines.
MaxSanitizeLines == 3

\* Answers with white space outside ASCII around the diff and the fences
SanitizeBlanks ==
    {"diff --git a b\n" \o NBSP,
     VT \o "diff --git a b\n+x" \o VT,
     FENCE \o "\ndiff --git a b\n" \o FENCE \o NEL,
     "Here you go:" \o NEL \o "diff --git a b" \o US \o FS}

SanitizeTexts ==
    {Join(ls, "\n") : ls \in UNION {[1..n -> SanitizeLines] : n \in 0..MaxSanitizeLines}}
    \cup SanitizeBlanks

InitSanitize ==
    /\ Idle
    /\ policy = DefaultPolicy
    /\ arg \in SanitizeTexts
    /\ ret = None
    /\ op = "none"

\* patch = sanitize_llm_patch(patch)
CallSanitize ==
    /\ op = "none"
    /\ ret' = sanitize_llm_patch(arg)
    /\ op' = "sanitize_llm_patch"
    /\ UNCHANGED <<run, policy, arg>>

NextSanitize == CallSanitize

SpecSanitize == InitSanitize /\ [][NextSanitize]_vars

\* C13: the output of sanitize_llm_patch is empty or begins with the diff
\* header token "diff --git"; when the token does not occur in the input, the
\* output is empty.
C13_EmptyOrDiffHeader ==
    op = "sanitize_llm_patch" =>
        /\ ret = "" \/ StartsWith(ret, "diff --git")
        /\ ~Contains(arg, "diff --git") => ret = ""

\* C14: sanitize_llm_patch removes every fence delimiter together with its
\* language tag, whatever the tag: the output holds no backtick, and a fence
\* opener after the diff header leaves nothing of its tag in the output.
C14_FencesLeaveNoResidue ==
    op = "sanitize_llm_patch" =>
        /\ ~Contains(ret, BT)
        /\ \A tag \in FenceTags :
               (/\ Contains(arg, "diff --git")
                /\ Contains(From(arg, Find(arg, "diff --git")), FENCE \o tag))
               => ~Contains(ret, tag)

-----------------------------------------------------------------------------
(* looks_like_unified_diff on its own: C15                                  *)

\* The four kinds of line the validator asks for, and a hunk body line.
ValidateLines ==
    {"diff --git a/src/a.py b/src/a.py", "--- a/src/a.py", "+++ b/src/a.py",
     "@@ -1 +1 @@", "+x"}

\* The longest text, in lines.
MaxValidateLines == 4

\* A diff after white space outside ASCII, and one whose lines end at
\* U+2028 instead of "\n"
ValidateBlanks ==
    {NBSP \o ModifyDiff,
     Join(<<"diff --git a/src/a.py b/src/a.py", "--- a/src/a.py", "+++ b/src/a.py",
            "@@ -1 +1 @@", "+x">>, NEL)}

ValidateTexts ==
    {Join(ls, "\n") : ls \in UNION {[1..n -> ValidateLines] : n \in 0..MaxValidateLines}}
    \cup ValidateBlanks

InitValidate ==
    /\ Idle
    /\ policy = DefaultPolicy
    /\ arg \in ValidateTexts
    /\ ret = None
    /\ op = "none"

\* looks_like_unified_diff(cleaned)
CallLooksLike ==
    /\ op = "none"
    /\ ret' = looks_like_unified_diff(arg)
    /\ op' = "looks_like_unified_diff"
    /\ UNCHANGED <<run, policy, arg>>

NextValidate == CallLooksLike

SpecValidate == InitValidate /\ [][NextValidate]_vars

\* A diff header line, then an old-file marker line, then a new-file marker
\* line, then a hunk marker line, in this order of appearance.
InOrderOfAppearance(lines) ==
    \E h, o, n, k \in 1..Len(lines) :
        /\ h < o /\ o < n /\ n < k
        /\ StartsWith(lines[h], "diff --git")
        /\ StartsWith(lines[o], "--- ")
        /\ StartsWith(lines[n], "+++ ")
        /\ StartsWith(lines[k], "@@ ")

\* C15: looks_like_unified_diff returns true only for a text that holds, in
\* this order of appearance, a diff header line, an old-file marker line, a
\* new-file marker line and a hunk marker line; a text with the four kinds of
\* line in another order is rejected.
C15_MarkersInOrder ==
    op = "looks_like_unified_diff" =>
        (ret = TRUE => InOrderOfAppearance(LinesOf(arg)))

-----------------------------------------------------------------------------
(* The validator as a gate of the pipeline: C16                             *)

\* The text lacks the minimal shape of a diff: no old-file marker line, no
\* new-file marker line, or no hunk marker line (bare or with ranges).
LacksDiffShape(text) ==
    \/ ~Contains(text, "\n--- ")
    \/ ~Contains(text, "\n+++ ")
    \/ ~Contains(text, "\n@@")

\* C16: the structural validator gates the pipeline: a text that lacks the
\* minimal shape of a diff is never given to the policy check, to the
\* canonicalizer or to a git apply subprocess.
C16_ValidatorGatesPipeline ==
    \A k \in 1..Len(calls) :
        calls[k].fn \in {"diff_touches_forbidden", "canonicalize_llm_patch",
                         "git apply", "git apply --3way"}
            => ~LacksDiffShape(calls[k].input)

-----------------------------------------------------------------------------
(* canonicalize_llm_patch on its own, and its scanner line by line          *)

\* Lines 412-421: the sections the loop of line 425 runs over.
sections_of(patch) ==
    With(Strip(Replace(patch, "\r\n", "\n")), LAMBDA txt0 :
    IF ~Contains(txt0, "diff --git") THEN <<>> ELSE
    With(From(txt0, Find(txt0, "diff --git")), LAMBDA txt :
    non_blank((IF Sub(txt, 1, 11) = "diff --git " THEN <<"">> ELSE <<>>)
              \o split_sections(txt, 0))))

\* Lines 429-431: the scanner at the start of a section.
scan_start ==
    [in_hunk |-> FALSE, pending_bare_hunk |-> FALSE, bare_hunk_added |-> 0,
     sec_out |-> <<>>]

\* The head of a section that creates src/a.py.
NewFileHead == "diff --git a/src/a.py b/src/a.py\n--- /dev/null\n+++ b/src/a.py"

\* Lines that may follow the head: hunk markers (bare and with ranges), file
\* markers, the header of a further section, and hunk body lines with and
\* without a prefix, a one-blank context line and an empty line among them.
BodyLines ==
    {"@@", "@@ -1 +1 @@", "--- a/src/a.py", "+++ b/src/a.py",
     "diff --git a/src/b.py b/src/b.py", "+x", "-y", " ", "x = 1", ""}

\* The most lines after the head.
MaxBodyLines == 2

\* Two bare hunks in one section, of one and of two additions.
TwoBareHunks == NewFileHead \o "\n@@\n+x\n@@\n+x\n+x"

\* A file marker line inside a bare hunk that has counted an addition.
MarkerInBareHunk == NewFileHead \o "\n@@\n+x\n--- a/src/a.py\nx = 1"

\* A hunk with ranges whose first line is a context line for a blank line.
BlankContextLine == NewFileHead \o "\n@@ -1 +1 @@\n \n+x"

\* A section that modifies a file, with an empty line inside its hunk.
BlankInModify ==
    "diff --git a/src/a.py b/src/a.py\n--- a/src/a.py\n+++ b/src/a.py\n"
    \o "@@ -1,2 +1,2 @@\n\n-x\n+y"

\* A bare hunk whose first line has no prefix and ends in two blanks.
TrailingBlanks == NewFileHead \o "\n@@\nx = 1  \ny = 2"

\* File markers that name the sentinel in each spelling, the first inside
\* a hunk.
SentinelSpellings ==
    "diff --git a/src/a.py b/src/a.py\n--- a/dev/null\n+++ b/src/a.py\n"
    \o "@@ -0,0 +1 @@\n+x\n--- dev/null\n---  \ta/dev/null  \n--- /dev/null\n"
    \o "+++ b/dev/null\n+++ dev/null\n+++   /dev/null"

\* A bare hunk whose body holds U+2028 between two lines and ends in
\* U+00A0, after a sentinel spelt with U+00A0 in its white space.
BoundaryInHunk ==
    "diff --git a/src/a.py b/src/a.py\n--- " \o NBSP \o "a/dev/null" \o NBSP
    \o "\n+++ b/src/a.py\n@@" \o US \o "\nx" \o NEL \o "y" \o NBSP \o "\n" \o NBSP \o "z"

\* The sentinel after a root prefix and a slash, and after the root prefix
\* of the other side
SentinelOtherSpellings ==
    "diff --git a/src/a.py b/src/a.py\n--- a//dev/null\n+++ b/src/a.py\n"
    \o "@@ -0,0 +1 @@\n+x\n--- b/dev/null\n+++ a/dev/null\n+++ b//dev/null\n"

CanonTexts ==
    {Join(<<NewFileHead>> \o ls, "\n") :
        ls \in UNION {[1..n -> BodyLines] : n \in 0..MaxBodyLines}}
    \cup {TwoBareHunks, MarkerInBareHunk, BlankContextLine, BlankInModify,
          TrailingBlanks, SentinelSpellings, SentinelOtherSpellings, RawMixed,
          BoundaryInHunk}

InitCanon ==
    /\ Idle
    /\ policy = DefaultPolicy
    /\ arg \in CanonTexts
    /\ ret = None
    /\ op = "none"

\* diff_text = canonicalize_llm_patch(diff_text)
CallCanonicalize ==
    /\ op = "none"
    /\ ret' = canonicalize_llm_patch(arg)
    /\ op' = "canonicalize_llm_patch"
    /\ UNCHANGED <<run, policy, arg>>

\* One turn of the loop of line 433 (and of line 425 when a section is
\* done): ret is [s, i, st], line i of section s was scanned last and left
\* the scanner as st.
ScanLine ==
    /\ op \in {"none", "scan"}
    /\ \E secs \in {sections_of(arg)} :
           LET s == IF op = "none" THEN 1 ELSE ret.s
               i == IF op = "none" THEN 0 ELSE ret.i
               st == IF op = "none" THEN scan_start ELSE ret.st
           IN  /\ s <= Len(secs)
               /\ \E lines \in {SplitLines(secs[s])} :
                      IF i < Len(lines)
                      THEN ret' = [s |-> s, i |-> i + 1,
                                   st |-> canon_line(st, lines[i + 1])]
                      ELSE /\ s < Len(secs)
                           /\ ret' = [s |-> s + 1, i |-> 1,
                                      st |-> canon_line(scan_start,
                                                        SplitLines(secs[s + 1])[1])]
    /\ op' = "scan"
    /\ UNCHANGED <<run, policy, arg>>

\* canonicalize_llm_patch applied to its own result: ret is [once, twice].
CallCanonicalizeAgain ==
    /\ op = "canonicalize_llm_patch"
    /\ ret' = [once |-> ret, twice |-> canonicalize_llm_patch(ret)]
    /\ op' = "canonicalize_again"
    /\ UNCHANGED <<run, policy, arg>>

NextCanon ==
    \/ CallCanonicalize
    \/ CallCanonicalizeAgain
    \/ ScanLine

SpecCanon == InitCanon /\ [][NextCanon]_vars

-----------------------------------------------------------------------------
(* The scanner of the canonicalizer: C17                                    *)

\* The lines of the section the scanner is in
ScanLines == SplitLines(sections_of(arg)[ret.s])

\* The line scanned last, as the scanner sees it (line 434)
ScannedLine == RStrip(ScanLines[ret.i])

\* The scanner before that line
ScanBefore == canon_loop(scan_start, SubSeq(ScanLines, 1, ret.i - 1), 1)

\* A diff-header, old-file marker or new-file marker line
StructuralLine(line) ==
    \/ StartsWith(line, "diff --git ")
    \/ StartsWith(line, "--- ")
    \/ StartsWith(line, "+++ ")

\* A hunk marker line, with ranges or bare
HunkMarkerLine(line) == StartsWith(line, "@@ ") \/ Strip(line) = "@@"

\* C17: a diff-header line, an old-file marker line or a new-file marker line
\* leaves the scanner with in_hunk = false and no bare hunk pending, whatever
\* the mode was before; while in_hunk is false a line that is no hunk marker
\* is copied as it is (no prefix added, nothing counted) and in_hunk stays
\* false.
C17_StructuralLineResetsHunk ==
    op = "scan" =>
        /\ StructuralLine(ScannedLine) =>
               /\ ret.st.in_hunk = FALSE
               /\ ret.st.pending_bare_hunk = FALSE
        /\ (~ScanBefore.in_hunk /\ ~HunkMarkerLine(ScannedLine)
                /\ ~StructuralLine(ScannedLine)) =>
               /\ ret.st.in_hunk = FALSE
               /\ ret.st.sec_out = Append(ScanBefore.sec_out, ScannedLine)
               /\ ret.st.bare_hunk_added = ScanBefore.bare_hunk_added

\* A file marker line was scanned inside a bare hunk whose lines were being
\* counted, and closed it.
C17_Witness ==
    /\ op = "scan"
    /\ StructuralLine(ScannedLine)
    /\ ScanBefore.in_hunk
    /\ ScanBefore.pending_bare_hunk
    /\ ScanBefore.bare_hunk_added > 0
    /\ ~ret.st.in_hunk
    /\ ~ret.st.pending_bare_hunk

-----------------------------------------------------------------------------
(* Synthesized hunk headers: C18, C19                                       *)

\* The lines of the text given to the canonicalizer / of its result
InLines  == SplitLines(arg)
OutLines == SplitLines(ret)

\* The input is one section for a new file
SingleNewFileSection ==
    /\ Len(sections_of(arg)) = 1
    /\ \E i \in 1..Len(InLines) : RStrip(InLines[i]) = "--- /dev/null"

\* The positions of the bare hunk markers of the input
BareMarkers == {i \in 1..Len(InLines) : Strip(InLines[i]) = "@@"}

\* An addition-shaped, a removal-shaped, a context-shaped line
AdditionLine(line) == StartsWith(line, "+") /\ ~StartsWith(line, "+++ ")
RemovalLine(line)  == StartsWith(line, "-") /\ ~StartsWith(line, "--- ")
ContextLine(line)  == StartsWith(line, " ")

\* The end of the hunk that begins at line i: the line before the next
\* structural line or hunk marker, or the last line
HunkEnd(i) ==
    LET stops == {j \in (i + 1)..Len(InLines) :
                     StructuralLine(InLines[j]) \/ HunkMarkerLine(InLines[j])}
    IN  IF stops = {} THEN Len(InLines)
        ELSE (CHOOSE j \in stops : \A k \in stops : j <= k) - 1

\* The body of the hunk that begins at line i
HunkBody(i) == SubSeq(InLines, i + 1, HunkEnd(i))

\* How many lines of a body have a shape
CountLines(body, Shape(_)) == Cardinality({k \in 1..Len(body) : Shape(body[k])})

\* The body consists of addition-shaped lines only
OnlyAdditions(body) == \A k \in 1..Len(body) : AdditionLine(body[k])

\* The header the repair step is to write for N additions
HeaderFor(n) == "@@ -0,0 +1," \o IntToStr(n) \o " @@"

\* C18: canonicalizing a single new-file section with one bare hunk marker
\* whose body consists of exactly N addition-shaped lines, N >= 0, yields the
\* hunk header "@@ -0,0 +1,N @@" in the place of the marker.
C18_BareHeaderDeclaresCount ==
    (/\ op = "canonicalize_llm_patch"
     /\ SingleNewFileSection
     /\ Cardinality(BareMarkers) = 1
     /\ \A i \in BareMarkers : HunkEnd(i) = Len(InLines) /\ OnlyAdditions(HunkBody(i)))
    => \A i \in BareMarkers :
           /\ i <= Len(OutLines)
           /\ OutLines[i] = HeaderFor(Len(HunkBody(i)))

\* The bare marker with an empty body was canonicalized: the header written
\* declares one new line where there is none.
C18_Witness ==
    /\ op = "canonicalize_llm_patch"
    /\ arg = NewFileHead \o "\n@@"
    /\ OutLines[Len(OutLines)] = HeaderFor(1)

\* C19: every hunk header synthesized by the canonicalizer declares lengths
\* consistent with the lines present in its hunk: for each bare hunk marker
\* of a section, the new-len written equals the number of addition lines
\* between the marker and the next structural marker, and the old-len
\* written (0) equals the number of removal and context lines there.
C19_SynthesizedLengthsConsistent ==
    (/\ op = "canonicalize_llm_patch"
     /\ Len(sections_of(arg)) = 1
     /\ Len(OutLines) = Len(InLines))
    => \A i \in BareMarkers :
           /\ OutLines[i] = HeaderFor(CountLines(HunkBody(i), AdditionLine))
           /\ CountLines(HunkBody(i), RemovalLine) = 0
           /\ CountLines(HunkBody(i), ContextLine) = 0

\* Two bare hunks of one and of two additions were canonicalized, and both
\* headers declare two new lines.
C19_Witness ==
    /\ op = "canonicalize_llm_patch"
    /\ arg = TwoBareHunks
    /\ OutLines[4] = HeaderFor(2)
    /\ OutLines[6] = HeaderFor(2)

-----------------------------------------------------------------------------
(* Prefixed lines inside a hunk: C20                                        *)

\* The line scanned last, as the input has it
RawScannedLine == ScanLines[ret.i]

\* A line that begins with an addition, removal, context or no-newline
\* marker prefix
PrefixedLine(line) == Len(line) >= 1 /\ Ch(line, 1) \in {"+", "-", " ", "\\"}

\* C20: inside a hunk, an input line that begins with an addition, removal,
\* context or no-newline-marker prefix is appended to the output unchanged,
\* character for character, so with the kind it had.
C20_PrefixedLinesUnchanged ==
    (/\ op = "scan"
     /\ ScanBefore.in_hunk
     /\ PrefixedLine(RawScannedLine))
    => ret.st.sec_out = Append(ScanBefore.sec_out, RawScannedLine)

\* A context line made of its prefix alone was scanned inside a hunk and
\* came out as an addition.
C20_Witness ==
    /\ op = "scan"
    /\ ScanBefore.in_hunk
    /\ RawScannedLine = " "
    /\ ret.st.sec_out = Append(ScanBefore.sec_out, "+")

-----------------------------------------------------------------------------
(* Empty and unprefixed lines inside a hunk: C21, C22                       *)

\* The section the scanner is in creates a file: its old-file marker is the
\* /dev/null sentinel
InNewFileSection ==
    \E k \in 1..Len(ScanLines) : RStrip(ScanLines[k]) = "--- /dev/null"

\* C21: an empty line inside a hunk is rewritten with the addition prefix
\* when the section creates a file (old marker /dev/null) and with the
\* context prefix in every other section.
C21_EmptyLinePrefixBySection ==
    (/\ op = "scan"
     /\ ScanBefore.in_hunk
     /\ RawScannedLine = "")
    => ret.st.sec_out =
           Append(ScanBefore.sec_out, IF InNewFileSection THEN "+" ELSE " ")

\* An empty line was scanned inside the hunk of a section that modifies a
\* file, and came out as an addition.
C21_Witness ==
    /\ op = "scan"
    /\ arg = BlankInModify
    /\ ScanBefore.in_hunk
    /\ RawScannedLine = ""
    /\ ret.st.sec_out = Append(ScanBefore.sec_out, "+")

\* A non-empty line with none of the four prefixes that is no structural
\* line and no hunk marker
UnprefixedLine(line) ==
    /\ line # ""
    /\ ~PrefixedLine(line)
    /\ ~StructuralLine(line)
    /\ ~HunkMarkerLine(line)

\* The scanner counted the line scanned last for a pending bare hunk, and
\* for no other hunk
CountedIfPending ==
    ret.st.bare_hunk_added =
        ScanBefore.bare_hunk_added + (IF ScanBefore.pending_bare_hunk THEN 1 ELSE 0)

\* C22 as stated: inside a hunk, a non-empty line with none of the four
\* prefixes is emitted as the same text with "+" prepended, and is counted
\* as an addition for a pending bare hunk header.
C22_UnprefixedEmittedSame ==
    (/\ op = "scan"
     /\ ScanBefore.in_hunk
     /\ UnprefixedLine(RawScannedLine))
    => /\ ret.st.sec_out = Append(ScanBefore.sec_out, "+" \o RawScannedLine)
       /\ CountedIfPending

\* C22 amended: inside a hunk, a non-empty line with none of the four
\* prefixes is emitted as "+" followed by the line without its trailing
\* white space (always an addition, never a context line), the scanner stays
\* in the hunk, and the line is counted as an addition for a pending bare
\* hunk header.
C22_UnprefixedEmittedStripped ==
    (/\ op = "scan"
     /\ ScanBefore.in_hunk
     /\ UnprefixedLine(ScannedLine))
    => /\ ret.st.sec_out = Append(ScanBefore.sec_out, "+" \o RStrip(RawScannedLine))
       /\ ret.st.in_hunk
       /\ CountedIfPending

\* A line without prefix was scanned inside a pending bare hunk, was emitted
\* as an addition and raised the count.
C22_Witness ==
    /\ op = "scan"
    /\ ScanBefore.in_hunk
    /\ ScanBefore.pending_bare_hunk
    /\ UnprefixedLine(ScannedLine)
    /\ ret.st.sec_out = Append(ScanBefore.sec_out, "+" \o ScannedLine)
    /\ ret.st.bare_hunk_added = ScanBefore.bare_hunk_added + 1

-----------------------------------------------------------------------------
(* The creation/deletion sentinel: C23                                      *)

\* The spellings of the sentinel: with or without a root prefix, with or
\* without the leading slash
SentinelNames == {root \o slash \o "dev/null" : root \in {"", "a/", "b/"},
                                                 slash \in {"", "/"}}

\* A file marker line of token tok ("---" or "+++") that names the sentinel
SentinelMarker(line, tok) ==
    /\ StartsWith(line, tok)
    /\ IsSpace(Ch(line, 4))
    /\ Strip(From(line, 3)) \in SentinelNames

\* The line the scanner emitted last
EmittedLine == ret.st.sec_out[Len(ret.st.sec_out)]

\* C23: an old-file or new-file marker that names the creation/deletion
\* sentinel in a near-miss spelling (with or without the root prefix, with or
\* without the leading slash) is emitted in the one canonical spelling
\* "--- /dev/null" or "+++ /dev/null" respectively.
C23_SentinelCanonicalSpelling ==
    op = "scan" =>
        /\ SentinelMarker(RawScannedLine, "---") =>
               /\ Len(ret.st.sec_out) = Len(ScanBefore.sec_out) + 1
               /\ EmittedLine = "--- /dev/null"
        /\ SentinelMarker(RawScannedLine, "+++") =>
               /\ Len(ret.st.sec_out) = Len(ScanBefore.sec_out) + 1
               /\ EmittedLine = "+++ /dev/null"

\* An old-file marker that spells the sentinel without its slash was
\* scanned and came out in the canonical spelling.
C23_Witness ==
    /\ op = "scan"
    /\ RawScannedLine = "--- dev/null"
    /\ EmittedLine = "--- /dev/null"

-----------------------------------------------------------------------------
(* Sections without a hunk: C24                                             *)

\* Some file section of the text has no hunk header
ZeroHunkSection(text) ==
    \E s \in 1..Len(sections_of(text)) :
        LET lines == SplitLines(sections_of(text)[s])
        IN  \A k \in 1..Len(lines) : ~HunkMarkerLine(lines[k])

\* The calls of the apply step
ApplyCalls == {k \in 1..Len(calls) : calls[k].fn \in {"git apply", "git apply --3way"}}

\* C24: a document of which a file section has zero hunks after
\* canonicalization is a failure as a whole: no part of it is emitted by the
\* canonicalizer to the apply step.
C24_ZeroHunkSectionNeverApplied ==
    \A k \in ApplyCalls : ~ZeroHunkSection(calls[k].input)

\* The canonicalizer was given a diff header and nothing else, returned it,
\* and git apply was run on it.
C24_Witness ==
    \E k \in ApplyCalls :
        /\ calls[k - 1].fn = "canonicalize_llm_patch"
        /\ calls[k - 1].input = RawHeaderOnly
        /\ calls[k - 1].output = <<calls[k].input>>
        /\ ZeroHunkSection(calls[k].input)

-----------------------------------------------------------------------------
(* The canonical text: C25, C26                                             *)

\* C25: idempotence.  For every text, of one or of several file sections,
\* canonicalizing the canonical text gives the canonical text again: no line
\* is added, removed or rewritten.
C25_Idempotent ==
    op = "canonicalize_again" => ret.twice = ret.once

\* A well-formed diff of two files was canonicalized twice, and the second
\* pass added a line.
C25_Witness ==
    /\ op = "canonicalize_again"
    /\ arg = RawMixed
    /\ Len(sections_of(arg)) = 2
    /\ Len(SplitLines(ret.twice)) = Len(SplitLines(ret.once)) + 1

\* Line j of lines lies inside a hunk: after a hunk header, with no
\* structural line and no hunk header from there up to line j
InsideHunk(lines, j) ==
    \E i \in 1..(j - 1) :
        /\ StartsWith(lines[i], "@@ ")
        /\ \A k \in (i + 1)..j :
               ~StructuralLine(lines[k]) /\ ~StartsWith(lines[k], "@@ ")

\* C26: in the text emitted by canonicalize_llm_patch, for documents of one
\* or of several file sections, every line between a hunk header and the
\* next structural line (diff header, file marker, hunk header) or the end
\* of the text begins with one of the prefixes "+", "-", " " and "\"; no
\* empty or unprefixed line occurs inside a hunk.
C26_EmittedHunkLinesPrefixed ==
    op = "canonicalize_llm_patch" =>
        \A j \in 1..Len(OutLines) :
            InsideHunk(OutLines, j) => PrefixedLine(OutLines[j])

\* A well-formed diff of two files was canonicalized and the text emitted
\* has an empty line after the last line of the first hunk.
C26_Witness ==
    /\ op = "canonicalize_llm_patch"
    /\ arg = RawMixed
    /\ \E j \in 1..Len(OutLines) : InsideHunk(OutLines, j) /\ OutLines[j] = ""

-----------------------------------------------------------------------------
(* The repair attempt: C27                                                  *)

\* The generation requests of the repair retry: those made after a
\* three-way apply
RepairGens == {g \in Gens : \E j \in 1..(g - 1) : calls[j].fn = "git apply --3way"}

\* The diff built from the raw text answered to generation request g alone
FreshDiff(g) == Generated[calls[g].output][1]

\* C27: a repair attempt builds its diff from the brand-new raw text of that
\* attempt only: what is given to the policy check, to the canonicalizer and
\* to git apply after a repair generation is the diff extracted from the new
\* answer (resp. its canonical text), with nothing carried over from or
\* merged with the diff of an earlier attempt.
C27_RepairFromNewRawTextOnly ==
    \A g \in RepairGens : \A k \in (g + 1)..Len(calls) :
        /\ calls[k].fn \in {"diff_touches_forbidden", "canonicalize_llm_patch"}
               => calls[k].input = FreshDiff(g)
        /\ k \in ApplyCalls
               => calls[k].input = canonicalize_llm_patch(FreshDiff(g))

\* A repair patch that differs from the patch that failed went through the
\* policy check and was given to git apply.
C27_Witness ==
    \E g \in RepairGens : \E k \in ApplyCalls, j \in ApplyCalls :
        /\ j < g /\ g < k
        /\ calls[k - 2].fn = "diff_touches_forbidden"
        /\ calls[k - 2].input = FreshDiff(g)
        /\ calls[k].input # calls[j].input
        /\ calls[k].input = canonicalize_llm_patch(FreshDiff(g))

-----------------------------------------------------------------------------
(* Failures and exceptions of the controller: C28                           *)

\* Each failure kind, when it is the last thing that happened, has ended
\* the run with a failure tuple, or is followed by the retry or the repair
\* retry that the controller still has to make.
FailureKindsReturn ==
    LET n == Len(calls)
    IN  /\ (n > 0 /\ NoDiffAt(n)) => (Failed \/ (n = 1 /\ pc = "retry"))
        /\ (n > 0 /\ RejectedAt(n)) => Failed
        /\ (n > 0 /\ (ApplyFailedAt(n) \/ EncodeFailedAt(n))) =>
               (Failed \/ (pc = "repair" /\ RepairGens = {}))

\* A failure result is the tuple (False, mode, message, preview)
FailureTupleShape ==
    Failed => /\ Len(result) = 4
              /\ result[1] = FALSE
              /\ result[3] # ""
              /\ Len(result[4]) <= LLM_PREVIEW_CHARS + 3

\* The positions at which the controller has a step to take
ACTIVE == {"main", "retry", "forbid", "strict", "fuzzy", "repair", "repair_forbid"}

\* The run has stopped: it is at no position with a step to take
Stopped == pc \notin ACTIVE /\ ~ENABLED Next

\* A run that has stopped has returned a result
StoppedMeansReturned == Stopped => Returned

\* C28 as stated: every failure kind (no diff found, policy rejection, apply
\* failure of both strategies, failure of the repair attempt) ends
\* attempt_llm_patch with the failure tuple (False, mode, message, preview);
\* no exception escapes the controller, and every run reaches a returned
\* result.
C28_EveryRunReturns ==
    /\ FailureKindsReturn
    /\ FailureTupleShape
    /\ pc \notin RAISED
    /\ StoppedMeansReturned

\* C28 amended: every failure kind ends attempt_llm_patch with the failure
\* tuple (False, mode, message, preview) and none of them escapes as an
\* exception; a run that stops without a returned result was left by an
\* exception of the file listing or of llm_chat, raised before the first
\* answer was generated.
C28_FailureKindsReturn ==
    /\ FailureKindsReturn
    /\ FailureTupleShape
    /\ pc \in RAISED => (calls = <<>> /\ result = None)
    /\ Stopped => (Returned \/ pc \in RAISED)

\* The repair attempt failed to apply, after the first patch had failed to
\* apply, and the run returned a failure tuple.
C28_Witness ==
    /\ Failed
    /\ ApplyFailedAt(Len(calls))
    /\ RepairGens # {}
    /\ Stopped

-----------------------------------------------------------------------------
(* The end-to-end scenario: C29                                             *)

\* The first answer of the run is the fenced new-file diff for src/a.py
\* with a bare hunk header and two lines without prefix
ScenarioRun == Len(calls) >= 1 /\ calls[1].output[1] = RawFenced

\* The canonical diff of the scenario
ScenarioCanonical ==
    NewFileHead \o "\n@@ -0,0 +1,2 @@\n+x = 1\n+y = 2\n"

\* C29: end-to-end scenario.  For raw text that is a fenced block holding a
\* new-file diff for src/a.py with a bare hunk header and two unprefixed
\* lines, the policy check passes, git apply is handed the canonical diff
\* with the header "@@ -0,0 +1,2 @@" and both lines prefixed "+", and, when
\* the strict apply succeeds, the run returns an applied result after
\* exactly one generation request and one apply subprocess.
C29_ScenarioApplied ==
    ScenarioRun =>
        /\ Len(calls) >= 2 =>
               /\ calls[2].fn = "diff_touches_forbidden"
               /\ calls[2].output = None
        /\ Len(calls) >= 4 =>
               /\ calls[4].fn = "git apply"
               /\ calls[4].input = ScenarioCanonical
        /\ (Len(calls) >= 4 /\ calls[4].output[1] = 0) =>
               /\ pc = "done"
               /\ result = Applied
               /\ NumGenerations = 1
               /\ Cardinality(ApplyCalls) = 1
               /\ Len(calls) = 4

\* The scenario was run in a repository that has an empty file dev/null: the
\* policy check passed, git apply was handed the canonical diff, took the
\* file for the old side and wrote src/a.py, and the run returned applied.
C29_Witness ==
    /\ ScenarioRun
    /\ Len(calls) = 4
    /\ calls[2].output = None
    /\ calls[4].fn = "git apply"
    /\ calls[4].input = ScenarioCanonical
    /\ calls[4].output[1] = 0
    /\ result = Applied
    /\ FileOf(repo, "src/a.py").work = Some("x = 1\ny = 2\n")

-----------------------------------------------------------------------------
(* src/agents/llm_client.py: load_llm_config and llm_chat                   *)

\* A Python exception that leaves the function / a value it returns
Raise(exc) == [raised |-> TRUE, exc |-> exc]
Return(v) == [raised |-> FALSE, v |-> v]

\* Lines 26-30: json.loads(raw), {} when it raises; frames is the number
\* of Python frames in use, the one of _safe_json_load included.
_safe_json_load(raw, frames) ==
    With(json_loads(raw, frames), LAMBDA r :
    IF r.ok THEN r.v ELSE JVal("obj", "", <<>>))

\* key in data
HasKey(data, key) == \E k \in 1..Len(data.items) : data.items[k][1] = key

\* (data.get(key) or default).strip(): AttributeError when the value is
\* truthy and no str
StrField(data, key, default) ==
    With(DictGet(data, key), LAMBDA v :
    IF ~Truthy(v) THEN Return(default)
    ELSE IF v.t = "str" THEN Return(Strip(v.s))
    ELSE Raise("AttributeError"))

\* The blanks int() and float() skip around a literal: the white space but
\* U+001C..U+001F
IsBlank(c) == IsSpace(c) /\ c \notin {FS, US}
StripBlanks(s) ==
    IF \A i \in 1..Len(s) : IsBlank(Ch(s, i))
    THEN ""
    ELSE Sub(s, CHOOSE i \in 1..Len(s) :
                    ~IsBlank(Ch(s, i)) /\ \A j \in 1..(i - 1) : IsBlank(Ch(s, j)),
                CHOOSE i \in 1..Len(s) :
                    ~IsBlank(Ch(s, i)) /\ \A j \in (i + 1)..Len(s) : IsBlank(Ch(s, j)))

\* digit (["_"] digit)*
DigitPart(u) ==
    /\ u # ""
    /\ \A k \in 1..Len(u) : IsDecimal(Ch(u, k)) \/ Ch(u, k) = "_"
    /\ IsDecimal(Ch(u, 1)) /\ IsDecimal(Ch(u, Len(u)))
    /\ ~Contains(u, "__")

\* s without a sign at its start
Unsigned(s) == IF Ch(s, 1) \in {"+", "-"} THEN From(s, 1) ELSE s

\* int(s) returns for the str s: blanks, a sign, digits
IntText(s) ==
    With(Unsigned(StripBlanks(s)), LAMBDA u :
    /\ DigitPart(u)
    /\ Cardinality({k \in 1..Len(u) : Ch(u, k) # "_"}) <= INT_MAX_STR_DIGITS)

\* digits [. [digits]] or . digits
PointText(mant) ==
    With(FirstOf(mant, {"."}), LAMBDA dot :
    IF dot = 0 THEN DigitPart(mant)
    ELSE \/ DigitPart(Take(mant, dot - 1))
            /\ (From(mant, dot) = "" \/ DigitPart(From(mant, dot)))
         \/ dot = 1 /\ DigitPart(From(mant, dot)))

\* float(s) returns for the str s: blanks, a sign, then inf, infinity or nan
\* in any case, or digits with a point and an exponent
FloatText(s) ==
    With(Unsigned(StripBlanks(s)), LAMBDA u :
    With(FirstOf(u, {"e", "E"}), LAMBDA epos :
    \/ Lower(u) \in {"inf", "infinity", "nan"}
    \/ /\ epos = 0 \/ DigitPart(Unsigned(From(u, epos)))
       /\ PointText(IF epos = 0 THEN u ELSE Take(u, epos - 1))))

\* int(data.get(key, default)) and float(data.get(key, default)): TypeError
\* for null, a list or an object; ValueError for a str that is no number and
\* for int(nan); OverflowError for int(inf) and for float() of an int from
\* 2^1024 - 2^970 on
NumField(data, key, point) ==
    With(DictGet(data, key), LAMBDA v :
    IF ~HasKey(data, key) \/ v.t \in {"true", "false"} THEN Return("number")
    ELSE IF v.t = "num"
    THEN IF point
         THEN IF ~NumIsFloat(v.s) /\ FloatIsInf(v.s)
              THEN Raise("OverflowError") ELSE Return("number")
         ELSE IF v.s = "NaN" THEN Raise("ValueError")
         ELSE IF v.s \in {"Infinity", "-Infinity"} \/ (NumIsFloat(v.s) /\ FloatIsInf(v.s))
         THEN Raise("OverflowError") ELSE Return("number")
    ELSE IF v.t = "str"
    THEN IF (IF point THEN FloatText(v.s) ELSE IntText(v.s))
         THEN Return("number") ELSE Raise("ValueError")
    ELSE Raise("TypeError"))

\* Lines 33-54: load_llm_config() for the value of LLM_CONFIG_JSON in the
\* environment (None when it is not set).  The value returned is
\* [mode, base_url, model]; data.get of a value that is no dict raises
\* AttributeError; the fields are evaluated in the order of the source.
\* frames is the number of Python frames in use, the one of load_llm_config
\* included.
load_llm_config(env, frames) ==
    With(Strip(IF env = None THEN "" ELSE env[1]), LAMBDA raw :
    IF raw = "" THEN Return([mode |-> "mock", base_url |-> "", model |-> ""]) ELSE
    With(_safe_json_load(raw, frames + 1), LAMBDA data :
    IF data.t # "obj" THEN Raise("AttributeError") ELSE
    LET mode     == StrField(data, "mode", "mock")
        base_url == StrField(data, "base_url", "")
        api_key  == StrField(data, "api_key", "")
        model    == StrField(data, "model", "")
        timeout  == NumField(data, "timeout_s", FALSE)
        temp     == NumField(data, "temperature", TRUE)
        max_tok  == NumField(data, "max_tokens", FALSE)
        fields   == <<mode, base_url, api_key, model, timeout, temp, max_tok>>
    IN  IF \E k \in 1..7 : fields[k].raised
        THEN fields[CHOOSE k \in 1..7 :
                        fields[k].raised /\ \A j \in 1..(k - 1) : ~fields[j].raised]
        ELSE Return([mode |-> mode.v, base_url |-> base_url.v, model |-> model.v])))

\* A buggy variant: the exception of the provider call is not caught.
llm_chat_provider_errors_escape(env, outcome, frames) ==
    With(load_llm_config(env, frames + 1), LAMBDA c :
    IF c.raised THEN c
    ELSE IF c.v.mode = "mock" \/ c.v.base_url = "" THEN Return(<<MOCK_TEXT, "mock">>)
    ELSE IF c.v.mode \in {"openai_chat", "ollama_chat", "hf_inference"}
    THEN IF c.v.mode = "hf_inference" /\ c.v.model = ""
         THEN Raise("RuntimeError")
         ELSE IF outcome.raised THEN outcome
         ELSE Return(<<outcome.v, c.v.mode>>)
    ELSE IF c.v.mode = "custom_http"
    THEN Return(<<MOCK_TEXT
                  \o "\nsuggestions:\n- LLM disabled: custom_http is not implemented.\n",
                  "mock">>)
    ELSE Return(<<MOCK_TEXT \o "\nsuggestions:\n- LLM disabled: unknown mode '"
                      \o c.v.mode \o "'.\n",
                  "mock">>))

\* Lines 167-202: llm_chat(prompt) for the value of LLM_CONFIG_JSON and for
\* what the provider call does: outcome is Return(text) or Raise(str(e)).
\* frames is the number of Python frames in use, the one of llm_chat
\* included.
llm_chat(env, outcome, frames) ==
    With(load_llm_config(env, frames + 1), LAMBDA c :
    IF c.raised THEN c
    ELSE IF c.v.mode = "mock" \/ c.v.base_url = "" THEN Return(<<MOCK_TEXT, "mock">>)
    ELSE IF c.v.mode \in {"openai_chat", "ollama_chat", "hf_inference"}
    THEN IF c.v.mode = "hf_inference" /\ c.v.model = ""
         THEN Return(<<MOCK_TEXT \o "\nsuggestions:\n- LLM not used: "
                           \o "hf_inference requires 'model' in LLM_CONFIG_JSON" \o "\n",
                       "mock">>)
         ELSE IF outcome.raised
         THEN Return(<<MOCK_TEXT \o "\nsuggestions:\n- LLM not used: "
                           \o outcome.exc \o "\n",
                       "mock">>)
         ELSE Return(<<outcome.v, c.v.mode>>)
    ELSE IF c.v.mode = "custom_http"
    THEN Return(<<MOCK_TEXT
                  \o "\nsuggestions:\n- LLM disabled: custom_http is not implemented.\n",
                  "mock">>)
    ELSE Return(<<MOCK_TEXT \o "\nsuggestions:\n- LLM disabled: unknown mode '"
                      \o c.v.mode \o "'.\n",
                  "mock">>))

\* A configuration nested as deep as the interpreter allows no parser to go
DeepConfig ==
    "{\"mode\": \"openai_chat\", \"base_url\": \"http://h\", \"a\": "
    \o Rep("[", DeepNesting) \o Rep("]", DeepNesting) \o "}"

\* Values of LLM_CONFIG_JSON
ConfigObjects ==
    {"{}",
     "{\"mode\": \"mock\", \"base_url\": \"http://h\"}",
     "{\"mode\": \"mock\", \"timeout_s\": \"soon\"}",
     "{\"mode\": \"openai_chat\"}",
     "{\"mode\": \"openai_chat\", \"base_url\": \"http://h\"}",
     "{\"mode\": \"openai_chat\", \"base_url\": \"http://h\", \"timeout_s\": \" 30 \"}",
     "{\"mode\": \"openai_chat\", \"base_url\": \"http://h\", \"max_tokens\": null}",
     "{\"mode\": \"ollama_chat\", \"base_url\": \" http://h \", \"temperature\": \"0.5\"}",
     "{\"mode\": \"hf_inference\", \"base_url\": \"http://h\"}",
     "{\"mode\": \"hf_inference\", \"base_url\": \"http://h\", \"model\": \"m\"}",
     "{\"mode\": \"custom_http\", \"base_url\": \"http://h\"}",
     "{\"mode\": \"gpt\", \"base_url\": \"http://h\"}",
     "{\"mode\": 5, \"base_url\": \"http://h\"}",
     "{\"base_url\": \"http://h\", \"temperature\": \"hot\"}",
     "{\"mode\": \"openai_chat\", \"base_url\": \"http://h\", \"timeout_s\": Infinity}",
     "{\"mode\": \"openai_chat\", \"base_url\": \"http://h\", \"max_tokens\": 1e400}",
     "{\"mode\": \"openai_chat\", \"base_url\": \"http://h\", \"timeout_s\": NaN}",
     "{\"mode\": 1e-400, \"base_url\": \"\\u00a0http://h\\u2028\", \"temperature\": \"1_0e-1\"}",
     "{\"mode\": \"ollama_chat\", \"base_url\": \"http://h\", \"max_tokens\": \"\\u00a0\\u0663\"}",
     "{\"mode\": \"ollama_chat\", \"base_url\": \"http://h\", \"max_tokens\": \"4\\u001f\"}",
     "{\"mode\": \"ollama_chat\", \"base_url\": \"http://h\", \"max_tokens\": \"\\u0664\"}",
     "{\"mode\": \"ollama_chat\", \"base_url\": \"http://h\", \"timeout_s\": \"\\ud835\\udfd7\"}",
     "{\"mode\": \"ollama_chat\", \"base_url\": \"http://h\", \"timeout_s\": \"\\ud800\"}",
     "{\"mode\": \"ollama_chat\", \"base_url\": \"http://h\", \"temperature\": \"\\u0130nf\"}",
     DeepConfig}

ConfigValues ==
    {None} \cup {Some(t) : t \in {"", "  ", "not json", "[]", "null", "\"mock\""}
                             \cup ConfigObjects}

\* What the call of the provider does: a text, or an exception of requests
\* or of the reading of the answer
ProviderOutcomes ==
    {Return("status=needs-fix\nissues:\n- x\n"), Return(""),
     Raise("HTTPSConnectionPool(host='h', port=443): Read timed out."),
     Raise("401 Client Error: Unauthorized for url: http://h/v1/chat/completions"),
     Raise("'choices'")}

\* The Python frames in use in llm_chat when a script calls it:
\* reviewer.py runs it from <module> (line 475), main (line 471) and main
\* (line 437), run_code_agent.py from attempt_llm_patch and
\* llm_generate_patch (lines 599 and 586).
ChatFrames == {4, AttemptFrames + 2}

InitChat ==
    /\ Idle
    /\ policy = DefaultPolicy
    /\ arg \in [env : ConfigValues, outcome : ProviderOutcomes, frames : ChatFrames]
    /\ ret = None
    /\ op = "none"

\* cfg = load_llm_config()
CallLoadConfig ==
    /\ op = "none"
    /\ ret' = load_llm_config(arg.env, arg.frames + 1)
    /\ op' = "load_llm_config"
    /\ UNCHANGED <<run, policy, arg>>

\* raw, llm_mode = llm_chat(prompt)
CallLlmChat ==
    /\ op = "none"
    /\ ret' = llm_chat(arg.env, arg.outcome, arg.frames)
    /\ op' = "llm_chat"
    /\ UNCHANGED <<run, policy, arg>>

NextChat ==
    \/ CallLoadConfig
    \/ CallLlmChat

SpecChat == InitChat /\ [][NextChat]_vars

\* The mode that LLM_CONFIG_JSON configures, when it is a JSON object with a
\* text for "mode" (or none): what load_llm_config makes of it
ConfiguredMode ==
    LET raw == Strip(IF arg.env = None THEN "" ELSE arg.env[1])
        data == _safe_json_load(raw, arg.frames + 2)
    IN  IF raw = "" \/ data.t # "obj" \/ StrField(data, "mode", "mock").raised
        THEN None
        ELSE Some(StrField(data, "mode", "mock").v)

\* No base URL is set in LLM_CONFIG_JSON
NoBaseUrl ==
    LET raw == Strip(IF arg.env = None THEN "" ELSE arg.env[1])
        data == _safe_json_load(raw, arg.frames + 2)
    IN  raw = "" \/ (data.t = "obj" /\ ~Truthy(DictGet(data, "base_url")))

\* The cases in which llm_chat is to fall back to the mock answer
FallbackCase ==
    \/ arg.outcome.raised
    \/ NoBaseUrl
    \/ /\ ConfiguredMode # None
       /\ ConfiguredMode[1] \notin {"openai_chat", "ollama_chat", "hf_inference"}

\* llm_chat returned the pair of a text that begins with the mock review and
\* the mode "mock"
MockReturned ==
    /\ ~ret.raised
    /\ StartsWith(ret.v[1], MOCK_TEXT)
    /\ ret.v[2] = "mock"

\* C30 as stated: llm_chat never raises; whenever the provider call fails
\* with an exception, or the configured mode is mock, unknown or
\* unimplemented, or no base URL is set, it returns a (text, mode) pair whose
\* mode is "mock" and whose text begins with the mock review text.
C30_AlwaysFallsBackToMock ==
    op = "llm_chat" =>
        /\ ~ret.raised
        /\ FallbackCase => MockReturned

\* C30 amended: when load_llm_config returns a configuration, llm_chat does
\* not raise, and in each of those cases it returns the mock pair; it raises
\* exactly when load_llm_config raises, which a provider failure never
\* causes.
C30_FallsBackWhenConfigLoads ==
    op = "llm_chat" =>
        /\ ret.raised <=> load_llm_config(arg.env, arg.frames + 1).raised
        /\ (FallbackCase /\ ~load_llm_config(arg.env, arg.frames + 1).raised) => MockReturned

\* The provider call raised under a configuration that selects a provider,
\* and llm_chat returned the mock pair with the text of the exception.
C30_Witness ==
    /\ op = "llm_chat"
    /\ arg.outcome.raised
    /\ ConfiguredMode = Some("openai_chat")
    /\ ~NoBaseUrl
    /\ MockReturned
    /\ Contains(ret.v[1], arg.outcome.exc)

-----------------------------------------------------------------------------
(* src/wordcount.py                                                         *)

\* text.count("\n")
CountNewlines(text) == Cardinality({i \in 1..Len(text) : Ch(text, i) = "\n"})

\* Lines 5-13: count_lines(text)
count_lines(text) ==
    IF text = "" THEN 0
    ELSE CountNewlines(text) + (IF EndsWith(text, "\n") THEN 0 ELSE 1)

\* Lines 16-24: count_words(text), the number of matches of \S+, one at each
\* character that is no white space and follows none
count_words(text) ==
    IF text = "" THEN 0
    ELSE Cardinality({i \in 1..Len(text) :
            /\ ~IsSpace(Ch(text, i))
            /\ (i = 1 \/ IsSpace(Ch(text, i - 1)))})

\* Lines 27-33: _count_characters_raw(text)
_count_characters_raw(text) == Len(text)

\* Lines 36-42: count_characters(text)
count_characters(text) == _count_characters_raw(text)

\* Lines 45-49: wc(text)
wc(text) == <<count_lines(text), count_words(text), count_characters(text)>>

\* The texts counted: up to MaxWcLines lines that end with a newline, and
\* after them a last line that may lack it
MaxWcLines == 3

WcLinePool == {"", "a", "First line", " x\ty "}

WcTerminated ==
    UNION {{Join([k \in 1..n |-> f[k] \o "\n"], "") : f \in [1..n -> WcLinePool]}
           : n \in 0..MaxWcLines}

\* Words between white space outside ASCII
WcBlanks == {"a" \o NBSP \o "b" \o VT \o "c" \o NEL \o OUTSIDE \o "\n", US \o FS}

WcTexts == {t \o tail : t \in WcTerminated, tail \in WcLinePool} \cup WcBlanks

InitWc ==
    /\ Idle
    /\ policy = DefaultPolicy
    /\ arg \in WcTexts
    /\ ret = None
    /\ op = "none"

CallCountLines ==
    /\ op = "none"
    /\ ret' = count_lines(arg)
    /\ op' = "count_lines"
    /\ UNCHANGED <<run, policy, arg>>

CallCountWords ==
    /\ op = "none"
    /\ ret' = count_words(arg)
    /\ op' = "count_words"
    /\ UNCHANGED <<run, policy, arg>>

CallCountCharacters ==
    /\ op = "none"
    /\ ret' = count_characters(arg)
    /\ op' = "count_characters"
    /\ UNCHANGED <<run, policy, arg>>

CallWc ==
    /\ op = "none"
    /\ ret' = wc(arg)
    /\ op' = "wc"
    /\ UNCHANGED <<run, policy, arg>>

NextWc ==
    \/ CallCountLines
    \/ CallCountWords
    \/ CallCountCharacters
    \/ CallWc

SpecWc == InitWc /\ [][NextWc]_vars

\* The text is made of k >= 1 lines, each ended by a newline
NewlineTerminated(text) == text # "" /\ EndsWith(text, "\n")

\* C31: for a text made of k >= 1 newline-terminated lines count_lines
\* returns k + 1, counting the empty line after the last newline, and wc
\* returns that value as its first component.
C31_TrailingNewlineCounted ==
    NewlineTerminated(arg) =>
        /\ op = "count_lines" => ret = CountNewlines(arg) + 1
        /\ op = "wc" => ret[1] = CountNewlines(arg) + 1

\* count_lines and wc have counted three newline-terminated lines.
C31_Witness ==
    /\ arg = "First line\nFirst line\nFirst line\n"
    /\ \/ op = "count_lines" /\ ret = 3
       \/ op = "wc" /\ ret[1] = 3

-----------------------------------------------------------------------------
(* The controller: what reaches git apply, and what follows a success       *)

\* The policy checks of the run made before call k that rejected nothing
AcceptedBefore(k) ==
    {j \in 1..(k - 1) : calls[j].fn = "diff_touches_forbidden" /\ calls[j].output = None}

\* C32: every invocation of the git apply subprocess (strict or three-way)
\* receives canonicalize_llm_patch(t) for a text t on which
\* diff_touches_forbidden returned no rejection earlier in the same run, for
\* the initial patch and for the repair patch alike.
C32_OnlyCheckedTextsApplied ==
    \A k \in ApplyCalls :
        \E j \in AcceptedBefore(k) :
            calls[k].input = canonicalize_llm_patch(calls[j].input)

\* A repair patch that differs from the initial patch was checked and then
\* handed to git apply, which applied it.
C32_Witness ==
    /\ pc = "done"
    /\ phase = "repair"
    /\ result[1] = TRUE
    /\ diff3 # diff_text
    /\ calls[Len(calls)].fn \in {"git apply", "git apply --3way"}
    /\ calls[Len(calls)].input = canonicalize_llm_patch(diff3)
    /\ Cardinality(AcceptedBefore(Len(calls))) = 2

\* The invocations of git apply that exited with 0
SucceededApplies == {k \in ApplyCalls : calls[k].output[1] = 0}

\* C33: once an apply attempt succeeds the run returns applied = True at
\* once: the successful git apply is the last call of the run (no generation
\* request, policy check or apply subprocess follows it), the run is over
\* with the result (True, ...), and one patch at most has been applied.
C33_SuccessEndsRun ==
    /\ \A k \in SucceededApplies :
           /\ k = Len(calls)
           /\ pc = "done"
           /\ result # None
           /\ result[1] = TRUE
    /\ Cardinality(SucceededApplies) <= 1
    /\ Cardinality({k \in 1..Len(tree) : tree[k][1] = "applied"}) <= 1

\* The initial patch failed both strategies, the repair patch was applied by
\* the three-way apply, and the run returned.
C33_Witness ==
    /\ pc = "done"
    /\ result[1] = TRUE
    /\ phase = "repair"
    /\ calls[Len(calls)].fn = "git apply --3way"
    /\ calls[Len(calls)].output[1] = 0
    /\ Cardinality(ApplyCalls) = 4

-----------------------------------------------------------------------------
(* extract_patch_from_llm on its own (lines 233-267)                        *)

\* What the model may write before the diff
ExtractBefore ==
    {"", "  ", "Here is the patch:\n", "{\"notes\": \"n\"}\n", "{\"patch\": \"\"}\n", "{"}

\* The diff header, file markers and hunk header of the answer, if any
ExtractHeads ==
    {"", "diff --git a/src/a.py b/src/a.py\n--- a/src/a.py\n+++ b/src/a.py\n@@ -1 +1 @@\n-x\n"}

\* The line the diff adds: with and without brace-delimited text
ExtractBodies ==
    {"+y\n", "+d = {}\n", "+d = {\"a\": 1}\n", "+if (x) { y(); }\n", "+s = {1, 2}\n",
     "+d = {\"patch\": \"p\"}\n"}

\* What the model may write after the diff
ExtractAfter == {"", "}", "Notes: {}\n"}

\* Answers with white space outside ASCII around the JSON text and in its
\* values, and with a number that rounds to 0.0 for the patch
ExtractBlanks ==
    {NBSP \o "{\"patch\": \"\\u00a0diff --git a b\\u2028\", \"notes\": \"\\u000bn\\u001f\"}" \o NEL,
     "{\"patch\": 1e-400, \"notes\": \"n\"}",
     "{\"patch\": 1e-4, \"notes\": \"n\"}",
     VT \o "diff --git a/src/a.py b/src/a.py\n+y" \o FS}

\* Answers nested too deep for json.loads, and with a lone surrogate
ExtractDeep == {RawDeep, RawSurrogate}

ExtractTexts ==
    {b \o h \o d \o a :
        b \in ExtractBefore, h \in ExtractHeads, d \in ExtractBodies, a \in ExtractAfter}
    \cup ExtractBlanks \cup ExtractDeep

InitExtract ==
    /\ Idle
    /\ policy = DefaultPolicy
    /\ arg \in ExtractTexts
    /\ ret = None
    /\ op = "none"

\* patch, notes = extract_patch_from_llm(text)
CallExtract ==
    /\ op = "none"
    /\ ret' = extract_patch_from_llm(arg, ExtractFrames)
    /\ op' = "extract_patch_from_llm"
    /\ UNCHANGED <<run, policy, arg>>

\* Lines 586-593: llm_generate_patch on the answer (arg, "openai_chat")
CallGeneratePatch ==
    /\ op = "none"
    /\ ret' = llm_generate_patch(<<arg, "openai_chat">>, GenerateFrames)
    /\ op' = "llm_generate_patch"
    /\ UNCHANGED <<run, policy, arg>>

NextExtract ==
    \/ CallExtract
    \/ CallGeneratePatch

SpecExtract == InitExtract /\ [][NextExtract]_vars

\* Some part of the text, from a "{" to a "}", is a JSON object whose "patch"
\* is a text that is not blank
JsonPatchIn(text) ==
    \E i \in {k \in 1..Len(text) : Ch(text, k) = "{"} :
    \E j \in {k \in (i + 1)..Len(text) : Ch(text, k) = "}"} :
        With(json_loads(Sub(text, i, j), ExtractFrames), LAMBDA r :
            /\ r.ok
            /\ r.v.t = "obj"
            /\ DictGet(r.v, "patch").t = "str"
            /\ Strip(DictGet(r.v, "patch").s) # "")

\* The text from the first "diff --git" on, stripped
FromFirstDiff(text) ==
    Strip(From(Strip(text), Find(Strip(text), "diff --git")))

\* C34: for every raw text that contains "diff --git" and from which no JSON
\* object with a non-empty "patch" can be parsed, extract_patch_from_llm
\* returns the text starting at the first "diff --git", a non-empty patch,
\* also when the body of the diff holds brace-delimited text.
C34_FallsBackToRawDiff ==
    (/\ op = "extract_patch_from_llm"
     /\ Contains(arg, "diff --git")
     /\ ~JsonPatchIn(arg))
        => /\ ret[1] = FromFirstDiff(arg)
           /\ ret[1] # ""

\* A diff whose added line holds an empty pair of braces: the patch and the
\* notes returned are empty.
C34_Witness ==
    /\ op = "extract_patch_from_llm"
    /\ arg = "diff --git a/src/a.py b/src/a.py\n--- a/src/a.py\n+++ b/src/a.py\n"
                 \o "@@ -1 +1 @@\n-x\n+d = {}\n"
    /\ ret = <<"", "">>

\* Brace-delimited text that is no JSON does not keep the fallback from the
\* diff: the patch returned starts at the first "diff --git".
BracesThatAreNoJsonFallBack ==
    (/\ op = "extract_patch_from_llm"
     /\ Contains(arg, "diff --git")
     /\ \/ search_braces(Strip(arg)) = None
        \/ ~json_loads(search_braces(Strip(arg))[1], ExtractFrames).ok)
        => ret[1] = FromFirstDiff(arg)

-----------------------------------------------------------------------------
(* handle_issue_mode (lines 688-741) and the invocations of                  *)
(* handle_pr_iteration_mode (lines 745-802) over the life of a pull request  *)

\* Line 13
MAX_ITERATIONS == 3

\* int(m.group(1)) for a text of decimal digits (ASCII or of DIGITS), of a
\* value below 2^31
RECURSIVE StrToInt(_)
StrToInt(d) ==
    IF d = "" THEN 0
    ELSE 10 * StrToInt(Take(d, Len(d) - 1)) + DigitValue(Ch(d, Len(d)))

\* The index after the white space (\s*) that starts at 0-based i
SpaceEnd(s, i) ==
    IF \A k \in (i + 1)..Len(s) : IsSpace(Ch(s, k))
    THEN IF i > Len(s) THEN i ELSE Len(s)
    ELSE (CHOOSE k \in (i + 1)..Len(s) :
              ~IsSpace(Ch(s, k)) /\ \A j \in (i + 1)..(k - 1) : IsSpace(Ch(s, j))) - 1

\* The index after the decimal digits (\d*) that start at 0-based i
DecimalsEnd(s, i) ==
    IF \A k \in (i + 1)..Len(s) : IsDecimal(Ch(s, k))
    THEN IF i > Len(s) THEN i ELSE Len(s)
    ELSE (CHOOSE k \in (i + 1)..Len(s) :
              ~IsDecimal(Ch(s, k)) /\ \A j \in (i + 1)..(k - 1) : IsDecimal(Ch(s, j))) - 1

\* re.search(r"AI-ITERATION:\s*(\d+)", body): the first match, as
\* Some([start, end, digits]) with 0-based start and end, or None
RECURSIVE iteration_search(_, _)
iteration_search(body, from) ==
    With(Find(From(body, from), "AI-ITERATION:"), LAMBDA rel :
    IF rel = -1 THEN None ELSE
    With(SpaceEnd(body, from + rel + 13), LAMBDA ws :
    With(DecimalsEnd(body, ws), LAMBDA de :
    IF de > ws
    THEN Some([start |-> from + rel, end |-> de, digits |-> Sub(body, ws + 1, de)])
    ELSE iteration_search(body, from + rel + 1))))

\* Lines 100-102: parse_iteration(pr_body)
parse_iteration(pr_body) ==
    With(iteration_search(pr_body, 0), LAMBDA m :
    IF m # None THEN StrToInt(m[1].digits) ELSE 1)

\* re.sub(r"AI-ITERATION:\s*\d+", "AI-ITERATION: <n>", body): every match
RECURSIVE sub_iteration(_, _)
sub_iteration(body, new_iter) ==
    With(iteration_search(body, 0), LAMBDA m :
    IF m = None THEN body
    ELSE Take(body, m[1].start) \o "AI-ITERATION: " \o IntToStr(new_iter)
             \o sub_iteration(From(body, m[1].end), new_iter))

\* Lines 105-109: bump_iteration(pr_body, new_iter)
bump_iteration(pr_body, new_iter) ==
    IF iteration_search(pr_body, 0) # None
    THEN sub_iteration(pr_body, new_iter)
    ELSE Strip(pr_body) \o "\n\nAI-ITERATION: " \o IntToStr(new_iter) \o "\n"

\* A buggy variant: the run stops only above the limit.
iteration_limit_reached_above_only(current_iter) == current_iter > MAX_ITERATIONS

\* Line 749: if current_iter >= MAX_ITERATIONS
iteration_limit_reached(current_iter) == current_iter >= MAX_ITERATIONS

\* What attempt_llm_patch does in a run: it returns applied after one to
\* three generation requests (main, retry, repair), or it raises (RAISED)
\* before the first answer; changes: the working tree differs from HEAD when
\* it returns (the patch applied changed a file, or an application that
\* failed left files behind)
AttemptOutcomes ==
    [applied : BOOLEAN, gens : 1..3, changes : BOOLEAN, raised : {FALSE}]
        \cup {[applied |-> FALSE, gens |-> 0, changes |-> FALSE, raised |-> TRUE]}

\* What maybe_format_with_black (lines 42-53) does to the working tree: black
\* does not run or fails, it leaves every file as it is, or it rewrites
\* files, and they differ from those of HEAD after that or are those of HEAD
BlackOutcomes ==
    {"skipped", "formatted: nothing changed", "formatted: files differ from HEAD",
     "formatted: files as in HEAD"}

\* Lines 42-53: the message of maybe_format_with_black
black_message(black) ==
    IF black = "skipped"
    THEN "black: skipped (Command '['python', '-m', 'black', '.']' returned "
             \o "non-zero exit status 1.)"
    ELSE "black: formatted"

\* The working tree against HEAD after attempt_llm_patch and black.  In the
\* operators below, fault names the call of the run that fails with an
\* exception, "none" when none does: sh raises CalledProcessError (line 27),
\* pr.edit and create_pull raise GithubException.
tree_after(att, black) ==
    IF black = "formatted: files differ from HEAD" THEN "changed"
    ELSE IF black = "formatted: files as in HEAD" THEN "clean"
    ELSE IF att.changes THEN "changed" ELSE "clean"

\* Lines 56-63: commit_change.  After git add -A, git status --porcelain
\* prints a line for every path that differs from HEAD; without one nothing
\* is committed.
commit_change(work_tree, fault) ==
    IF work_tree = "clean" THEN [committed |-> FALSE, raised |-> "none"]
    ELSE IF fault = "git commit" THEN [committed |-> FALSE, raised |-> fault]
    ELSE [committed |-> TRUE, raised |-> "none"]

\* Lines 66-67: git push -u origin branch, from a branch that was made on
\* commit base of the remote branch, which is at commit remote now: a push
\* that is no fast-forward is rejected, and sh raises
push_branch(base, remote, fault) ==
    IF fault = "push_branch" \/ base # remote
    THEN [pushed |-> FALSE, remote |-> remote]
    ELSE [pushed |-> TRUE, remote |-> remote + 1]

\* Lines 720-726: the body of the pull request that handle_issue_mode creates
issue_pr_body(issue_number, created_path, mode, msg, fmt_msg) ==
    "Closes #" \o IntToStr(issue_number) \o "\n\n"
    \o "AI-ITERATION: 1\n\n"
    \o "Created ´" \o created_path \o "´.\n"
    \o "LLM mode: " \o mode \o "; result: " \o msg \o "\n"
    \o fmt_msg \o "\n"

\* Lines 538-542: the message of apply_unified_diff when git refuses a patch
\* both ways
IssueApplyError ==
    "git apply failed:\nerror: corrupt patch at line 5\n---\n3way failed:\n"
        \o "error: corrupt patch at line 5"

\* What attempt_llm_patch does in a run of handle_issue_mode: applied, the
\* mode and the message it returns, and the generation requests it made on
\* the way (lines 599, 615 and 657).  A patch of the main attempt or of the
\* retry is applied or rejected after one or two requests; no diff in both
\* takes two (so in mock mode); the repair retry makes one more, after a
\* patch of one or two requests that git did not apply, and its failures
\* are reported like the one here.  The message of a rejection names a path
\* that the patch gave.
IssueAttempts ==
    [applied : {TRUE}, mode : {"openai_chat"}, msg : {"patch applied"}, gens : 1..2]
    \cup [applied : {TRUE}, mode : {"openai_chat"},
          msg : {"patch applied (repair retry)"}, gens : 2..3]
    \cup [applied : {FALSE}, mode : {"mock"},
          msg : {"no unified diff produced (sanity check failed)"}, gens : {2}]
    \cup [applied : {FALSE}, mode : {"openai_chat"},
          msg : {"patch rejected: attempted to modify non-allowed path: AI-ITERATION: 9"},
          gens : 1..2]
    \cup [applied : {FALSE}, mode : {"openai_chat"},
          msg : {"failed to apply patch after repair retry: " \o IssueApplyError},
          gens : 2..3]

\* The bodies a pull request may have when the first run reads it: bodies
\* that handle_issue_mode wrote (lines 720-726), the body of an earlier
\* version of it, bodies without a marker, with other spacing, with two
\* markers, with a marker at and above the limit.
PrBodies ==
    {"",
     issue_pr_body(7, ".ai/issue-7.md", "openai_chat", "patch applied",
                   "black: formatted"),
     "Closes #7\n\nAI-ITERATION: 1\n\nCreated ´.ai/issue-7.md´.\n",
     "Closes #7\n\nAI-ITERATION:2\n",
     "AI-ITERATION: 3",
     "AI-ITERATION:\n\n0 of 3",
     "AI-ITERATION: 02.5",
     "AI-ITERATION: x\nAI-ITERATION: 2\n",
     "AI-ITERATION: 1\nAI-ITERATION: 3\n",
     "ai-iteration: 3\n",
     "AI-ITERATION: 7\n",
     "AI-ITERATION:" \o NBSP \o DIGIT3 \o NEL,
     NBSP \o "AI-ITERATION:" \o US \o "02" \o FS}

\* The bodies that handle_issue_mode gives the pull request of issue 7
IssueBodies ==
    {issue_pr_body(7, ".ai/issue-7.md", a.mode, a.msg, black_message(black)) :
         a \in IssueAttempts, black \in BlackOutcomes}

\* The bodies a pull request may get: those it may begin with and what
\* bump_iteration makes of them
Bumped(bodies) ==
    bodies \cup {bump_iteration(b, n) : b \in bodies, n \in 1..(MAX_ITERATIONS + 1)}

GitHubBodies == Bumped(Bumped(PrBodies \cup IssueBodies))

\* parse_iteration and bump_iteration, computed once for every body
IterationOf == [b \in GitHubBodies |-> parse_iteration(b)]

BumpedTo ==
    [b \in GitHubBodies, n \in 1..(MAX_ITERATIONS + 1) |-> bump_iteration(b, n)]

\* What an invocation holds between its steps.  pc is its place; in
\* handle_pr_iteration_mode "got": after line 746, "committed": after line
\* 783, "pushed": after line 793; in handle_issue_mode "issue pushed": after
\* line 714, "no existing": after line 717 without a pull request found; in
\* both "done": returned, "raised".  before is pr.body as get_pull read it,
\* read is current_iter, base the commit of the remote branch that the
\* branch was made on, report what handle_issue_mode holds for the body of
\* its pull request: llm_mode, msg and fmt_msg.
NoRun ==
    [pc |-> "none", before |-> "", read |-> 0, base |-> 0, applied |-> FALSE,
     committed |-> FALSE, pushed |-> FALSE, edited |-> FALSE, report |-> <<>>]

\* What a step of an invocation did: run is the invocation after the step,
\* gens the generation requests made, tree the working tree against HEAD
\* when commit_change ran, comment the comment left on the pull request,
\* was the body on GitHub when pr.edit replaced it.
NoStep ==
    [run |-> NoRun, gens |-> 0, tree |-> "clean", comment |-> "", raised |-> "none",
     was |-> ""]

\* Lines 745-754: get_pull, parse_iteration and the test of the limit
get_pull(pr_body) ==
    With(IterationOf[pr_body], LAMBDA current_iter :
    With([NoRun EXCEPT !.before = pr_body, !.read = current_iter], LAMBDA r0 :
    IF iteration_limit_reached(current_iter)
    THEN [NoStep EXCEPT !.run = [r0 EXCEPT !.pc = "done"],
                        !.comment = "Code Agent: reached iteration limit ("
                                        \o IntToStr(MAX_ITERATIONS) \o "). Stopping."]
    ELSE [NoStep EXCEPT !.run = [r0 EXCEPT !.pc = "got"]]))

\* Lines 756-791: the branch of the pull request is fetched and checked out
\* at the commit the remote branch is at, the patch is generated and applied,
\* black runs, and commit_change commits what differs from HEAD.  att, black
\* and fault are what the environment does.
attempt_and_commit(r, remote, att, black, fault) ==
    IF fault = "checkout_remote_branch"
    THEN [NoStep EXCEPT !.run = [r EXCEPT !.pc = "raised"], !.raised = fault]
    ELSE IF att.raised
    THEN [NoStep EXCEPT !.run = [r EXCEPT !.pc = "raised", !.base = remote],
                        !.raised = "attempt_llm_patch"]
    ELSE
    With([r EXCEPT !.base = remote, !.applied = att.applied], LAMBDA r1 :
    With([NoStep EXCEPT !.gens = att.gens, !.tree = tree_after(att, black)], LAMBDA s1 :
    IF ~att.applied
    THEN [s1 EXCEPT !.run = [r1 EXCEPT !.pc = "done"],
                    !.comment = "Code Agent: LLM patch not applied"]
    ELSE
    With(commit_change(s1.tree, fault), LAMBDA c :
    IF c.raised # "none"
    THEN [s1 EXCEPT !.run = [r1 EXCEPT !.pc = "raised"], !.raised = c.raised]
    ELSE IF ~c.committed
    THEN [s1 EXCEPT !.run = [r1 EXCEPT !.pc = "done"], !.comment =
              "Code Agent: patch applied but resulted in no net changes."]
    ELSE [s1 EXCEPT !.run = [r1 EXCEPT !.pc = "committed", !.committed = TRUE]])))

\* Line 793: push_branch(branch), for the commit the remote branch is at
push_updates(r, remote, fault) ==
    With(push_branch(r.base, remote, fault), LAMBDA sent :
    [step   |-> IF sent.pushed
                THEN [NoStep EXCEPT !.run = [r EXCEPT !.pc = "pushed", !.pushed = TRUE]]
                ELSE [NoStep EXCEPT !.run = [r EXCEPT !.pc = "raised"],
                                    !.raised = "push_branch"],
     remote |-> sent.remote])

\* Lines 795-800: pr.edit with the body that get_pull read, bumped to the
\* next iteration, over the body the pull request has on GitHub by now
edit_body(r, body, fault) ==
    IF fault = "pr.edit"
    THEN [step |-> [NoStep EXCEPT !.run = [r EXCEPT !.pc = "raised"],
                                  !.raised = fault, !.was = body],
          body |-> body]
    ELSE [step |-> [NoStep EXCEPT !.run = [r EXCEPT !.pc = "done", !.edited = TRUE],
                                  !.was = body,
                                  !.comment = "Code Agent: iteration "
                                      \o IntToStr(r.read + 1) \o " pushed updates."],
          body |-> BumpedTo[r.before, r.read + 1]]

\* Lines 688-714 of handle_issue_mode for issue 7, when the branch of the
\* issue is at commit remote in the remote repository (0: it holds no commit
\* of its own).  The branch is made on the default branch, attempt_llm_patch
\* and black run, and the branch always gets a commit, for the file under
\* .ai/ with the time of the run; the push is rejected when the remote
\* branch holds other commits.
issue_push(remote, a, black, fault) ==
    With([NoRun EXCEPT !.applied = a.applied, !.committed = TRUE,
                       !.report = <<a.mode, a.msg, black_message(black)>>], LAMBDA r1 :
    With([NoStep EXCEPT !.gens = a.gens, !.tree = "changed"], LAMBDA s1 :
    With(push_branch(0, remote, fault), LAMBDA sent :
    IF fault = "attempt_llm_patch"
    THEN [remote |-> remote,
          step |-> [NoStep EXCEPT !.run = [NoRun EXCEPT !.pc = "raised"],
                              !.raised = fault]]
    ELSE IF ~sent.pushed
    THEN [remote |-> remote,
          step |-> [s1 EXCEPT !.run = [r1 EXCEPT !.pc = "raised"],
                              !.raised = "push_branch"]]
    ELSE [remote |-> sent.remote,
          step |-> [s1 EXCEPT !.run = [r1 EXCEPT !.pc = "issue pushed",
                                                 !.pushed = TRUE]]])))

\* Lines 716-731: find_existing_pr, and with a pull request found (pr is
\* not None) the comments on it and on the issue
find_existing_pr(r, pr, fault) ==
    IF fault = "find_existing_pr"
    THEN [NoStep EXCEPT !.run = [r EXCEPT !.pc = "raised"], !.raised = fault]
    ELSE IF pr # None
    THEN [NoStep EXCEPT !.run = [r EXCEPT !.pc = "done"],
                        !.comment = "Code Agent: updated branch with new changes."]
    ELSE [NoStep EXCEPT !.run = [r EXCEPT !.pc = "no existing"]]

\* Lines 733-741: create_pull with the body of lines 720-726.  GitHub
\* refuses a second pull request for the same head and base, and create_pull
\* raises GithubException.
create_pull(r, pr, fault) ==
    IF fault = "create_pull" \/ pr # None
    THEN [step |-> [NoStep EXCEPT !.run = [r EXCEPT !.pc = "raised"],
                                  !.raised = "create_pull"],
          body |-> pr]
    ELSE [step |-> [NoStep EXCEPT !.run = [r EXCEPT !.pc = "done"]],
          body |-> Some(issue_pr_body(7, ".ai/issue-7.md", r.report[1], r.report[2],
                                      r.report[3]))]

\* The number of invocations on one pull request, and the number of them
\* that are under way at a time
MaxRuns == 4
MaxOverlap == 2

\* arg is what the invocations share: the body of the pull request on GitHub
\* (None before there is one) and the commit the branch of the pull request
\* is at in the remote repository (the number of pushes it took).  ret holds
\* the invocations under way, a bag of what each of them holds, and what the
\* last step did.
InitPr ==
    /\ Idle
    /\ policy = DefaultPolicy
    /\ arg \in [initial : {None} \cup {Some(b) : b \in PrBodies},
                body : {None} \cup {Some(b) : b \in PrBodies},
                remote : {0, 1}, runs : {0}]
    /\ arg.body = arg.initial
    /\ arg.remote = (IF arg.initial = None THEN 0 ELSE 1)
    /\ ret = [live |-> EmptyBag, last |-> NoStep]
    /\ op = "none"

\* The bag with one more of x, and with one less
Joined(live, x) == live (+) SetToBag({x})
Left(live, x) == live (-) SetToBag({x})

\* The invocation that held the record took a step, and is under way or
\* over after it
Stepped(held, step) ==
    [live |-> IF step.run.pc \in {"done", "raised"} THEN Left(ret.live, held)
              ELSE Joined(Left(ret.live, held), step.run),
     last |-> step]

\* python run_code_agent.py --issue 7 begins: lines 688-714
HandleIssue ==
    /\ arg.runs < MaxRuns
    /\ BagCardinality(ret.live) < MaxOverlap
    /\ \E r \in {issue_push(arg.remote, a, black, fault) :
                      a \in IssueAttempts, black \in BlackOutcomes,
                      fault \in {"none", "attempt_llm_patch", "push_branch"}} :
             /\ arg' = [arg EXCEPT !.remote = r.remote, !.runs = @ + 1]
             /\ ret' = [live |-> IF r.step.run.pc = "raised" THEN ret.live
                                 ELSE Joined(ret.live, r.step.run),
                        last |-> r.step]
    /\ op' = "handle_issue_mode"
    /\ UNCHANGED <<run, policy>>

\* Lines 716-731 of an invocation under way
FindExistingPr ==
    /\ \E this \in BagToSet(ret.live) :
         /\ this.pc = "issue pushed"
         /\ \E fault \in {"none", "find_existing_pr"} :
              \E step \in {find_existing_pr(this, arg.body, fault)} :
                  ret' = Stepped(this, step)
    /\ op' = "find_existing_pr"
    /\ UNCHANGED <<run, policy, arg>>

\* Lines 733-741 of an invocation under way
CreatePull ==
    /\ \E this \in BagToSet(ret.live) :
         /\ this.pc = "no existing"
         /\ \E fault \in {"none", "create_pull"} :
              \E r \in {create_pull(this, arg.body, fault)} :
                  /\ ret' = Stepped(this, r.step)
                  /\ arg' = [arg EXCEPT !.body = r.body]
    /\ op' = "create_pull"
    /\ UNCHANGED <<run, policy>>

\* python run_code_agent.py --pr N begins: lines 745-754
GetPull ==
    /\ arg.body # None
    /\ arg.runs < MaxRuns
    /\ BagCardinality(ret.live) < MaxOverlap
    /\ \E s \in {get_pull(arg.body[1])} :
         ret' = [live |-> IF s.run.pc = "done" THEN ret.live
                          ELSE Joined(ret.live, s.run),
                 last |-> s]
    /\ arg' = [arg EXCEPT !.runs = @ + 1]
    /\ op' = "get_pull"
    /\ UNCHANGED <<run, policy>>

\* Lines 756-791 of an invocation under way
AttemptAndCommit ==
    /\ \E this \in BagToSet(ret.live) :
         /\ this.pc = "got"
         /\ \E step \in {attempt_and_commit(this, arg.remote, att, black, fault) :
                              att \in AttemptOutcomes, black \in BlackOutcomes,
                              fault \in {"none", "checkout_remote_branch",
                                         "git commit"}} :
              ret' = Stepped(this, step)
    /\ op' = "commit_change"
    /\ UNCHANGED <<run, policy, arg>>

\* Line 793 of an invocation under way
PushBranch ==
    /\ \E this \in BagToSet(ret.live) :
         /\ this.pc = "committed"
         /\ \E fault \in {"none", "push_branch"} :
              \E r \in {push_updates(this, arg.remote, fault)} :
                  /\ ret' = Stepped(this, r.step)
                  /\ arg' = [arg EXCEPT !.remote = r.remote]
    /\ op' = "push_branch"
    /\ UNCHANGED <<run, policy>>

\* Lines 795-800 of an invocation under way
EditBody ==
    /\ \E this \in BagToSet(ret.live) :
         /\ this.pc = "pushed"
         /\ \E fault \in {"none", "pr.edit"} :
              \E r \in {edit_body(this, arg.body[1], fault)} :
                  /\ ret' = Stepped(this, r.step)
                  /\ arg' = [arg EXCEPT !.body = Some(r.body)]
    /\ op' = "pr.edit"
    /\ UNCHANGED <<run, policy>>

NextPr ==
    \/ HandleIssue \/ FindExistingPr \/ CreatePull
    \/ GetPull \/ AttemptAndCommit \/ PushBranch \/ EditBody

SpecPr == InitPr /\ [][NextPr]_vars

\* The last step was one of handle_pr_iteration_mode
PrStep == op \in {"get_pull", "commit_change", "push_branch", "pr.edit"}

\* The invocations under way
Live == BagToSet(ret.live)

\* The AI-ITERATION value of the pull request on GitHub
IterationValue == IterationOf[arg.body[1]]

\* C35: iteration limit.  Across any sequence of runs on a pull request whose
\* AI-ITERATION value starts at or below MAX_ITERATIONS, the value in the
\* body never exceeds MAX_ITERATIONS; and a run that reads a value at or
\* above MAX_ITERATIONS issues no generation request, applies no patch and
\* makes no commit or push: it ends where it read the value.
C35_IterationLimit ==
    /\ (arg.body # None
        /\ (arg.initial # None => IterationOf[arg.initial[1]] <= MAX_ITERATIONS))
           => IterationValue <= MAX_ITERATIONS
    /\ \A r \in Live : r.read < MAX_ITERATIONS
    /\ (PrStep /\ ret.last.run.read >= MAX_ITERATIONS)
           => /\ op = "get_pull"
              /\ ret.last.run.pc = "done"
              /\ ret.last.gens = 0
              /\ ~ret.last.run.applied
              /\ ~ret.last.run.committed
              /\ ~ret.last.run.pushed
              /\ ~ret.last.run.edited

\* The pull request that handle_issue_mode made was pushed to twice, and the
\* run after that read the value 3 and stopped.
C35_Witness ==
    /\ op = "get_pull"
    /\ arg.initial = None
    /\ arg.remote = 3
    /\ ret.last.run.read = MAX_ITERATIONS
    /\ ret.last.gens = 0
    /\ ret.last.comment = "Code Agent: reached iteration limit (3). Stopping."

\* The step left the working tree without a change to commit: git status
\* was empty after the patch and black (line 59)
NoNetChange == ret.last.run.applied /\ ret.last.tree = "clean"

\* C36: the AI-ITERATION value is increased, by exactly 1, only in a run
\* where the patch was applied and a commit was created; in a run where the
\* patch was not applied, or was applied with no net change, nothing is
\* committed or pushed and the body of the pull request is left unchanged.
C36_BumpOnlyWithCommit ==
    /\ op = "pr.edit" =>
           /\ arg.body # Some(ret.last.was)
                  => /\ ret.last.run.edited
                     /\ ret.last.run.applied
                     /\ ret.last.run.committed
           /\ IterationValue > IterationOf[ret.last.was]
                  => IterationValue = IterationOf[ret.last.was] + 1
    /\ \A r \in Live : r.pc \in {"committed", "pushed"} => r.applied /\ r.committed
    /\ (op = "commit_change" /\ ret.last.raised = "none"
        /\ (~ret.last.run.applied \/ NoNetChange))
           => /\ ret.last.run.pc = "done"
              /\ ~ret.last.run.committed
              /\ ~ret.last.run.pushed
              /\ ~ret.last.run.edited

\* A run applied a patch, committed and pushed it and wrote the marker of
\* iteration 2 over the one of iteration 1.
C36_Witness ==
    /\ op = "pr.edit"
    /\ ret.last.run.applied /\ ret.last.run.committed
    /\ ret.last.run.pushed /\ ret.last.run.edited
    /\ ret.last.was = "Closes #7\n\nAI-ITERATION: 1\n\nCreated ´.ai/issue-7.md´.\n"
    /\ arg.body = Some("Closes #7\n\nAI-ITERATION: 2\n\nCreated ´.ai/issue-7.md´.\n")

-----------------------------------------------------------------------------
(* src/agents/review_agent/reviewer.py: the reviews of a pull request, as   *)
(* the main that runs does them (lines 370-468)                             *)

\* Lines 230-231
APPROVED_LABEL == "ai:approved"
NEEDS_FIX_LABEL == "ai:needs-fix"

\* Lines 304-310: parse_llm_status(llm_out), None when no verdict is found
parse_llm_status(llm_out) ==
    With(Lower(llm_out), LAMBDA t :
    IF Contains(t, "status=needs-fix") THEN Some("needs-fix")
    ELSE IF Contains(t, "status=approved") THEN Some("approved")
    ELSE None)

\* Lines 300-302: clamp(text, max_len)
clamp(text, max_len) ==
    With(Strip(text), LAMBDA t :
    IF Len(t) <= max_len THEN t ELSE Take(t, max_len) \o "\n...[TRUNCATED]...")

\* Lines 272-283: pr_has_substantive_changes(pr) on the files of the pull
\* request, each [filename, additions, deletions, patch] with patch None
\* when GitHub gives none
pr_has_substantive_changes(files) ==
    \E k \in 1..Len(files) :
        /\ ~StartsWith(files[k].filename, ".ai/")
        /\ \/ files[k].additions + files[k].deletions > 0
           \/ files[k].patch # None /\ Strip(files[k].patch[1]) # ""

\* "\n".join([f"- {x}" for x in items]) if items else "- None"
bullet_block(items) ==
    IF items = <<>> THEN "- None"
    ELSE Join([k \in 1..Len(items) |-> "- " \o items[k]], "\n")

\* Lines 312-332: format_ai_review(res, pr_number)
format_ai_review(res, pr_number) ==
    "AI-REVIEW:\n"
        \o "status=" \o res.status \o "\n"
        \o "pr=" \o IntToStr(pr_number) \o "\n"
        \o "issue=" \o (IF res.issue_number # None /\ res.issue_number[1] # 0
                        THEN IntToStr(res.issue_number[1]) ELSE "N/A") \o "\n"
        \o "ci=" \o (IF res.ci_state # None /\ res.ci_state[1] # ""
                     THEN res.ci_state[1] ELSE "unknown") \o "\n"
        \o "issues:\n" \o bullet_block(res.issues) \o "\n"
        \o "suggestions:\n" \o bullet_block(res.suggestions) \o "\n"

\* Lines 351-366: the calls apply_labels(pr, status) makes, in their order,
\* for the label names it read from the pull request
label_calls(current, status) ==
    IF status = "approved"
    THEN (IF NEEDS_FIX_LABEL \in current
          THEN <<<<"remove_from_labels", NEEDS_FIX_LABEL>>>> ELSE <<>>)
         \o <<<<"add_to_labels", APPROVED_LABEL>>>>
    ELSE (IF APPROVED_LABEL \in current
          THEN <<<<"remove_from_labels", APPROVED_LABEL>>>> ELSE <<>>)
         \o (IF NEEDS_FIX_LABEL \in current
             THEN <<<<"remove_from_labels", NEEDS_FIX_LABEL>>>> ELSE <<>>)
         \o <<<<"add_to_labels", NEEDS_FIX_LABEL>>>>

\* The labels of the pull request after the first n of the calls
RECURSIVE labels_after(_, _, _)
labels_after(labels, cs, n) ==
    IF n = 0 THEN labels
    ELSE With(labels_after(labels, cs, n - 1), LAMBDA before :
         IF cs[n][1] = "remove_from_labels"
         THEN before \ {cs[n][2]}
         ELSE before \cup {cs[n][2]})

\* A buggy variant: a verdict of the model replaces the deterministic one.
final_status_llm_overrides(issues, llm_status) ==
    IF llm_status \in {Some("approved"), Some("needs-fix")}
    THEN llm_status[1]
    ELSE IF issues = <<>> THEN "approved" ELSE "needs-fix"

\* Lines 411 and 437-442: the status of the review, from the issues the
\* deterministic checks found and the verdict read from the model output
final_status(issues, llm_status) ==
    IF issues = <<>> /\ llm_status \in {Some("approved"), Some("needs-fix")}
    THEN llm_status[1]
    ELSE IF issues = <<>> THEN "approved" ELSE "needs-fix"

\* Lines 393-409: the issues and suggestions of the deterministic checks
deterministic_checks(ci_state, files) ==
    LET failing  == ci_state \in {Some("failure"), Some("error")}
        scaffold == ~pr_has_substantive_changes(files)
    IN  [issues |->
             (IF failing THEN <<"CI is failing (" \o ci_state[1] \o ").">> ELSE <<>>)
             \o (IF scaffold
                 THEN <<"PR has no substantive changes outside .ai/ (scaffold-only).">>
                 ELSE <<>>),
         suggestions |->
             (IF failing THEN <<"Fix CI failures and push updates.">> ELSE <<>>)
             \o (IF scaffold
                 THEN <<"Implement the requested functionality in code changes.">>
                 ELSE <<>>)
             \o (IF ci_state = Some("pending")
                 THEN <<"CI is still running (pending). Wait for CI to finish.">>
                 ELSE <<>>)]

\* Lines 391-451: the ReviewResult of a review, for the state of CI, the
\* files of the pull request and the answer (text, mode) of llm_chat
review_result(issue_no, ci_state, files, answer) ==
    With(deterministic_checks(ci_state, files), LAMBDA det :
    With(Strip(answer[1]), LAMBDA llm_out :
    With(parse_llm_status(llm_out), LAMBDA llm_status :
    With(final_status(det.issues, llm_status), LAMBDA status :
    [status |-> status,
     issues |-> det.issues
                \o (IF det.issues = <<>> /\ llm_status = Some("needs-fix")
                    THEN <<"LLM review: requirements likely not met.">> ELSE <<>>),
     suggestions |-> det.suggestions \o <<"LLM mode: " \o answer[2]>>
                     \o (IF llm_out # ""
                         THEN <<"LLM output:", clamp(llm_out, 2500)>> ELSE <<>>),
     issue_number |-> issue_no,
     ci_state |-> ci_state]))))

\* combined.state of the head commit, None when it cannot be read
CiStates == {None, Some("success"), Some("failure"), Some("error"), Some("pending")}

\* pr.get_files(): no file, the scaffold file alone, code next to it, a file
\* without counted lines (a rename, a binary file, a blank patch)
ReviewFiles ==
    {<<>>,
     <<[filename |-> ".ai/issue-7.md", additions |-> 3, deletions |-> 0,
        patch |-> Some("@@ -0,0 +1,3 @@\n+a")]>>,
     <<[filename |-> ".ai/issue-7.md", additions |-> 3, deletions |-> 0,
        patch |-> Some("@@ -0,0 +1,3 @@\n+a")],
       [filename |-> "src/a.py", additions |-> 1, deletions |-> 1,
        patch |-> Some("@@ -1 +1 @@\n-x\n+y")]>>,
     <<[filename |-> "logo.png", additions |-> 0, deletions |-> 0, patch |-> None]>>,
     <<[filename |-> "src/b.py", additions |-> 0, deletions |-> 0, patch |-> Some(" \n")]>>,
     <<[filename |-> "src/big.py", additions |-> 0, deletions |-> 2, patch |-> None]>>}

\* What llm_chat returns
ReviewAnswers ==
    {<<MOCK_TEXT, "mock">>,
     <<"status=needs-fix\nissues:\n- no tests\n", "openai_chat">>,
     <<"Status=Approved\nissues:\n- None\n", "openai_chat">>,
     <<"status=approved|needs-fix", "ollama_chat">>,
     <<"Looks good to me.", "openai_chat">>,
     <<"  ", "hf_inference">>,
     <<NBSP \o "STATUS=NEEDS-FIX" \o NEL \o "issues:" \o VT \o "- " \o OUTSIDE \o US,
       "openai_chat">>}

\* The labels a pull request may carry that the reviewer does not manage
OtherLabels == {"bug"}

\* What a review holds between its requests: pc is its place ("missing":
\* get_label of line 256 raised, "ensured": ensure_label returned, "posted":
\* after line 464, "read": after line 355, "returned": apply_labels
\* returned, "raised"), label the label that ensure_label was called for
\* last, status the status of its review, before the names that get_labels
\* gave it, calls the requests it has made since, raised the call that
\* failed with an exception ("none" when none did).
NoReview ==
    [pc |-> "none", label |-> "", status |-> "", before |-> {}, calls |-> <<>>,
     raised |-> "none"]

\* Lines 379-380: the labels that main calls ensure_label for, in this order
EnsuredLabels == <<APPROVED_LABEL, NEEDS_FIX_LABEL>>

\* Lines 255-257: repo.get_label(name) of ensure_label, on the labels the
\* repository has now.  Without the label GitHub answers 404 and get_label
\* raises; with fault "get_label" the request fails for another reason.
\* except Exception takes both for a label that is missing.
get_label(rv, name, repo_labels, fault) ==
    IF name \in repo_labels /\ fault # "get_label"
    THEN [rv EXCEPT !.pc = "ensured", !.label = name]
    ELSE [rv EXCEPT !.pc = "missing", !.label = name]

\* Lines 258-260: repo.create_label(name, ...) of ensure_label, on the labels
\* the repository has now.  GitHub refuses a label that exists (422), the
\* exception is caught nowhere and the review ends.
create_label(rv, repo_labels, fault) ==
    IF rv.label \in repo_labels \/ fault = "create_label"
    THEN [rv |-> [rv EXCEPT !.pc = "raised", !.raised = "create_label"],
          repo_labels |-> repo_labels]
    ELSE [rv |-> [rv EXCEPT !.pc = "ensured"],
          repo_labels |-> repo_labels \cup {rv.label}]

\* extract_issue_number(pr.body) (lines 261-263): the issue the body closes
ReviewIssues == {None, Some(7)}

\* The review computed and formatted (lines 391-454), for every state of CI,
\* list of files and answer of llm_chat
ReviewTable ==
    [issue_no \in ReviewIssues, ci_state \in CiStates, files \in ReviewFiles,
     answer \in ReviewAnswers |->
        With(review_result(issue_no, ci_state, files, answer), LAMBDA res :
        [res |-> res, body |-> format_ai_review(res, 1)])]

\* What a review may compute and post: its result and its comment, for every
\* issue that the body of the pull request may name, state of CI, list of
\* files and answer of llm_chat it may be given
PostedReviews ==
    {ReviewTable[issue_no, ci_state, files, answer] :
         issue_no \in ReviewIssues, ci_state \in CiStates, files \in ReviewFiles,
         answer \in ReviewAnswers}

\* Line 355: the names of the labels that the pull request carries now
get_labels(rv, labels) == [rv EXCEPT !.pc = "read", !.before = labels]

\* Lines 357-368: the next request of apply_labels, for the names it read,
\* on the labels that the pull request carries now.  A request of the kind
\* fault fails, and the review ends with the labels as they are.
next_label_call(rv, labels, fault) ==
    With(label_calls(rv.before, rv.status), LAMBDA cs :
    With(cs[Len(rv.calls) + 1], LAMBDA call :
    IF call[1] = fault
    THEN [rv |-> [rv EXCEPT !.pc = "raised", !.raised = fault], labels |-> labels]
    ELSE [rv |-> [rv EXCEPT !.calls = Append(@, call),
                            !.pc = IF Len(rv.calls) + 1 = Len(cs)
                                   THEN "returned" ELSE "read"],
          labels |-> labels_after(labels, <<call>>, 1)]))

\* The number of reviews of one pull request
MaxReviews == 3

\* arg is what the reviews share: the labels of the pull request and of the
\* repository on GitHub.  ret holds the reviews under way, a bag of what each
\* of them holds, the review that took the last step, and, after a review
\* was posted, its result and its comment.
InitReview ==
    /\ Idle
    /\ policy = DefaultPolicy
    /\ arg \in [labels : SUBSET ({APPROVED_LABEL, NEEDS_FIX_LABEL} \cup OtherLabels),
                repo_labels : SUBSET {APPROVED_LABEL, NEEDS_FIX_LABEL},
                reviews : {0}]
    /\ arg.labels \cap {APPROVED_LABEL, NEEDS_FIX_LABEL} \subseteq arg.repo_labels
    /\ ret = [live |-> EmptyBag, last |-> NoReview, res |-> None, body |-> ""]
    /\ op = "none"

\* The review that held the record took a step, and is under way or over
\* after it
Reviewed(held, rv) ==
    [live |-> IF rv.pc \in {"returned", "raised"} THEN Left(ret.live, held)
              ELSE Joined(Left(ret.live, held), rv),
     last |-> rv, res |-> None, body |-> ""]

\* python reviewer.py --pr N begins: lines 370-379, up to the answer to
\* get_label for the first label
BeginReview ==
    /\ arg.reviews < MaxReviews
    /\ BagCardinality(ret.live) < MaxOverlap
    /\ arg' = [arg EXCEPT !.reviews = @ + 1]
    /\ \E fault \in {"none", "get_label"} :
         \E rv \in {get_label(NoReview, EnsuredLabels[1], arg.repo_labels, fault)} :
             ret' = [live |-> Joined(ret.live, rv), last |-> rv,
                     res |-> None, body |-> ""]
    /\ op' = "get_label"
    /\ UNCHANGED <<run, policy>>

\* Line 380 of a review under way: get_label for the second label
GetLabel ==
    /\ \E this \in BagToSet(ret.live) :
         /\ this.pc = "ensured"
         /\ this.label = EnsuredLabels[1]
         /\ \E fault \in {"none", "get_label"} :
              \E rv \in {get_label(this, EnsuredLabels[2], arg.repo_labels,
                                   fault)} :
                  ret' = Reviewed(this, rv)
    /\ op' = "get_label"
    /\ UNCHANGED <<run, policy, arg>>

\* Lines 258-260 of a review under way
CreateLabel ==
    /\ \E this \in BagToSet(ret.live) :
         /\ this.pc = "missing"
         /\ \E fault \in {"none", "create_label"} :
              \E r \in {create_label(this, arg.repo_labels, fault)} :
                  /\ ret' = Reviewed(this, r.rv)
                  /\ arg' = [arg EXCEPT !.repo_labels = r.repo_labels]
                  /\ op' = IF r.rv.pc = "raised" THEN "raised" ELSE "create_label"
    /\ UNCHANGED <<run, policy>>

\* Lines 382-464 of a review under way: llm_chat raises, or the review is
\* computed from what GitHub and llm_chat answer, commented and posted.  The
\* requests read the issue that the body of the pull request names, the
\* state of CI and the files, which no review writes, and add a comment and
\* a review, which no review reads.
PostReview ==
    /\ \E this \in BagToSet(ret.live) :
         /\ this.pc = "ensured"
         /\ this.label = EnsuredLabels[2]
         /\ \/ /\ ret' = Reviewed(this, [this EXCEPT !.pc = "raised",
                                                           !.raised = "llm_chat"])
               /\ op' = "raised"
            \/ \E r \in PostedReviews :
               \E rv \in {[this EXCEPT !.pc = "posted", !.status = r.res.status]} :
                   /\ ret' = [live |-> Joined(Left(ret.live, this), rv), last |-> rv,
                              res |-> Some(r.res), body |-> r.body]
                   /\ op' = "create_review"
    /\ UNCHANGED <<run, policy, arg>>

\* Line 355 of a review under way
GetLabels ==
    /\ \E this \in BagToSet(ret.live) :
         /\ this.pc = "posted"
         /\ \E rv \in {get_labels(this, arg.labels)} :
              ret' = Reviewed(this, rv)
    /\ op' = "get_labels"
    /\ UNCHANGED <<run, policy, arg>>

\* Lines 357-368 of a review under way: its next request
LabelCall ==
    \E this \in BagToSet(ret.live) :
         /\ this.pc = "read"
         /\ \E fault \in {"none", "remove_from_labels", "add_to_labels"} :
              \E r \in {next_label_call(this, arg.labels, fault)} :
                  /\ arg' = [arg EXCEPT !.labels = r.labels]
                  /\ ret' = Reviewed(this, r.rv)
                  /\ op' = IF r.rv.pc = "raised" THEN "raised"
                           ELSE IF r.rv.pc = "returned" THEN "apply_labels"
                           ELSE r.rv.calls[Len(r.rv.calls)][1]
         /\ UNCHANGED <<run, policy>>

NextReview ==
    \/ BeginReview \/ GetLabel \/ CreateLabel
    \/ PostReview \/ GetLabels \/ LabelCall

SpecReview == InitReview /\ [][NextReview]_vars

\* The labels of the two verdicts that the pull request carries
VerdictLabels == arg.labels \cap {APPROVED_LABEL, NEEDS_FIX_LABEL}

\* C37: after any sequence of reviews, from any initial label set, a pull
\* request never carries both "ai:approved" and "ai:needs-fix" once
\* apply_labels has returned: an approved review leaves exactly "ai:approved"
\* of the two, a needs-fix review leaves exactly "ai:needs-fix", and a
\* needs-fix review on a pull request already labelled needs-fix removes the
\* label and adds it again.  The states are those where apply_labels has
\* just returned and no other review is under way.
C37_LabelsExclusive ==
    (op = "apply_labels" /\ ret.live = EmptyBag) =>
        /\ VerdictLabels # {APPROVED_LABEL, NEEDS_FIX_LABEL}
        /\ ret.last.status = "approved" => VerdictLabels = {APPROVED_LABEL}
        /\ ret.last.status = "needs-fix" => VerdictLabels = {NEEDS_FIX_LABEL}
        /\ (ret.last.status = "needs-fix" /\ NEEDS_FIX_LABEL \in ret.last.before)
               => \E i, j \in 1..Len(ret.last.calls) :
                      /\ i < j
                      /\ ret.last.calls[i] = <<"remove_from_labels", NEEDS_FIX_LABEL>>
                      /\ ret.last.calls[j] = <<"add_to_labels", NEEDS_FIX_LABEL>>

\* A pull request labelled needs-fix is reviewed needs-fix again: the label
\* is removed and added, and the label of another kind stays.
C37_Witness ==
    /\ op = "apply_labels"
    /\ ret.live = EmptyBag
    /\ ret.last.before = {NEEDS_FIX_LABEL, "bug"}
    /\ ret.last.status = "needs-fix"
    /\ ret.last.calls = <<<<"remove_from_labels", NEEDS_FIX_LABEL>>,
                          <<"add_to_labels", NEEDS_FIX_LABEL>>>>
    /\ arg.labels = {NEEDS_FIX_LABEL, "bug"}

\* The deterministic checks of the review posted reported an issue:
\* the CI state is failure or error, or nothing changes outside .ai/
DeterministicIssue ==
    \E k \in 1..Len(ret.res[1].issues) :
        \/ StartsWith(ret.res[1].issues[k], "CI is failing (")
        \/ ret.res[1].issues[k]
               = "PR has no substantive changes outside .ai/ (scaffold-only)."

\* C38: the verdict of the language model can only downgrade or confirm a
\* review.  Whenever the deterministic checks report an issue (CI state
\* failure or error, or no substantive change outside .ai/) the final status
\* is "needs-fix" whatever the model output says, and a final status of
\* "approved" implies that no deterministic issue was found.
C38_ModelOnlyDowngrades ==
    ret.res # None =>
        /\ (\/ ret.res[1].ci_state \in {Some("failure"), Some("error")}
            \/ DeterministicIssue)
               => ret.res[1].status = "needs-fix"
        /\ ret.res[1].status = "approved"
               => /\ ~DeterministicIssue
                  /\ ret.res[1].ci_state \notin {Some("failure"), Some("error")}
                  /\ ret.res[1].issues = <<>>
        /\ ret.res[1].status \in {"approved", "needs-fix"}
        /\ StartsWith(ret.body, "AI-REVIEW:\nstatus=" \o ret.res[1].status \o "\n")
        /\ op = "create_review" => ret.last.status = ret.res[1].status

\* CI is failing, the model answered approved, and the review posted is
\* needs-fix; the model output is among the suggestions.
C38_Witness ==
    /\ op = "create_review"
    /\ ret.res # None
    /\ ret.res[1].ci_state = Some("failure")
    /\ ret.res[1].status = "needs-fix"
    /\ ret.res[1].issues = <<"CI is failing (failure).">>
    /\ \E k \in 1..Len(ret.res[1].suggestions) :
           ret.res[1].suggestions[k] = "Status=Approved\nissues:\n- None"
    /\ ret.last.status = "needs-fix"

====
